---- MODULE Spec2Model ----
(***************************************************************************)
(* Story curation pipeline of YT_Short_Scheduler: CrimeNewsScraper's       *)
(* classification, validation and deduplication (src/scraper.py),          *)
(* ContentProcessor's scoring, ranking, text normalisation, summaries and  *)
(* validation (src/content_processor.py), CanvaVideoCreator's line         *)
(* wrapping, frames and batches (src/canva_integration.py), the runs and   *)
(* statistics of AutomationScheduler (src/scheduler.py) and the stages of  *)
(* run_full_workflow (src/main.py).                                        *)
(*                                                                         *)
(* Text is a sequence of Unicode code points, so that len(), ord(), the    *)
(* regular expressions and the slices of the source are modelled on the    *)
(* characters they act on.                                                 *)
(***************************************************************************)
EXTENDS Integers, Sequences, FiniteSets, TLC

VARIABLES
    pc,                 \* the operation that ran last
    headline_in,        \* argument of the last process_headline call
    headline_out,       \* its return value
    scored,             \* argument of the last calculate_quality_score call
    score,              \* its return value
    all_stories,        \* scrape_all_sources: the stories collected so far
    stories,            \* the list handed to process_stories
    max_stories,        \* the limit of the last process_stories call
    processed_stories,  \* ContentProcessor.processed_stories
    summary_in,         \* arguments of the last process_summary call
    summary_out,        \* its return value
    similarity_in,      \* arguments of the last calculate_similarity call
    similarity,         \* its return value
    candidate,          \* the story under classification and validation
    classified,         \* what classify_crime_type returned for its headline
    valid,              \* what validate_story returned for it
    extracted,          \* what extract_story_data returned for it
    wrap_in,            \* wrap_text: the arguments text, font and max_width
    remaining_words,    \* wrap_text: the words the loop has not reached yet
    current_line,       \* wrap_text: the local current_line
    lines,              \* wrap_text: the local lines, returned at the end
    video_in,           \* create_static_video: story_data and what the files do
    video_path,         \* its return value
    frame,              \* the image it saved
    process_in,         \* process_stories: what each candidate meets
    batch_in,           \* create_videos_batch: stories_data and what each meets
    created_videos,     \* its return value
    stats,              \* AutomationScheduler.stats
    saved_stats,        \* automation_statistics.json
    saves,              \* the calls of save_statistics so far
    clock,              \* datetime.now(), one tick for each run
    returned,           \* what the last run_automation call returned
    last_unique,        \* remove_duplicates: the list it returned last
    last_seen,          \* remove_duplicates: seen_headlines as the call left it
    earlier_seen,       \* the same list as the call before left it
    results,            \* run_full_workflow: the results dict
    workflow_saves,     \* the calls of save_workflow_results so far
    workflow_returned,  \* the success flag run_full_workflow returned
    driver,             \* CrimeNewsScraper.driver
    visited             \* scrape_all_sources: what each source call did

story_vars == <<headline_in, headline_out, scored, score,
                all_stories, stories, max_stories, processed_stories>>
summary_vars == <<summary_in, summary_out>>
similarity_vars == <<similarity_in, similarity>>
classifier_vars == <<candidate, classified, valid, extracted>>
wrap_vars == <<wrap_in, remaining_words, current_line, lines>>

\* what the operations on stories leave alone
text_vars == <<summary_vars, similarity_vars, classifier_vars, wrap_vars>>

render_vars == <<video_in, video_path, frame>>
batch_vars == <<process_in, batch_in, created_videos>>

\* what the operations on stories and texts leave alone
scheduler_vars == <<stats, saved_stats, saves, clock, returned>>
repeat_vars == <<last_unique, last_seen, earlier_seen>>
workflow_vars == <<results, workflow_saves, workflow_returned>>
scrape_vars == <<driver, visited>>

\* what the calls of the scheduler leave alone
call_vars == <<repeat_vars, workflow_vars, scrape_vars>>
run_vars == <<render_vars, batch_vars, scheduler_vars, call_vars>>

vars == <<pc, story_vars, text_vars, run_vars>>

(***************************************************************************)
(* Characters                                                              *)
(***************************************************************************)
SPACE == 32
COMMA == 44
PERIOD == 46
HindiFirst == 2304
HindiLast == 2431
AsciiFirst == 32
AsciiLast == 126

\* str.isspace() and the class \s of re on str patterns
WhitespaceChars ==
    {9, 10, 11, 12, 13, 28, 29, 30, 31, 32, 133, 160, 5760} \cup (8192..8202)
        \cup {8232, 8233, 8239, 8287, 12288}

IsSpace(c) == c \in WhitespaceChars

\* the characters of the texts below: a tab (the first whitespace character),
\* the zero-width joiner U+200D (in no class the cleaning keeps), the Hindi
\* letter "क" and the Latin letter "a"
TAB == CHOOSE c \in WhitespaceChars : \A d \in WhitespaceChars : c <= d
ZWJ == 8202 + 3
KA == HindiFirst + 21
LATIN_A == AsciiFirst + 65

\* any(ord(char) >= 2304 and ord(char) <= 2431 ...)
IsHindi(c) == c >= HindiFirst /\ c <= HindiLast

\* the characters the class [^ऀ-ॿ -~\s] does not match
IsAllowed(c) == IsHindi(c) \/ (c >= AsciiFirst /\ c <= AsciiLast) \/ IsSpace(c)

\* str.lower() on one character (the cased characters of the model are ASCII)
LowerChar(c) == IF c >= 65 /\ c <= 90 THEN c + 32 ELSE c

Lower(s) == [i \in 1..Len(s) |-> LowerChar(s[i])]

\* n copies of character c
Rep(c, n) == [i \in 1..n |-> c]

\* s[:n] for n >= 0
Take(s, n) == SubSeq(s, 1, IF n < Len(s) THEN n ELSE Len(s))

\* s[:n] for any integer n: a negative n counts from the end
Slice(s, n) ==
    IF n >= 0 THEN Take(s, n)
    ELSE IF Len(s) + n > 0 THEN SubSeq(s, 1, Len(s) + n) ELSE <<>>

RECURSIVE LStrip(_)
LStrip(s) ==
    IF s # <<>> /\ IsSpace(Head(s)) THEN LStrip(Tail(s)) ELSE s

RECURSIVE RStrip(_)
RStrip(s) ==
    IF s # <<>> /\ IsSpace(s[Len(s)]) THEN RStrip(SubSeq(s, 1, Len(s) - 1)) ELSE s

\* str.strip()
Strip(s) == RStrip(LStrip(s))

\* the positions 1..Len(s), in order
Positions(s) == [i \in 1..Len(s) |-> i]

\* re.sub(r'\s+', ' ', s): of every run of whitespace the first character
\* stays, as a space
CollapseSpaces(s) ==
    LET kept == SelectSeq(Positions(s),
                          LAMBDA i : ~IsSpace(s[i]) \/ i = 1 \/ ~IsSpace(s[i - 1]))
    IN  [k \in 1..Len(kept) |-> IF IsSpace(s[kept[k]]) THEN SPACE ELSE s[kept[k]]]

\* re.sub(r'[^ऀ-ॿ -~\s]', '', s)
RemoveUnwanted(s) == SelectSeq(s, IsAllowed)

\* s.replace(' ' + c, c) for a character c other than the space: every space
\* right before a c goes
DropSpaceBefore(s, c) ==
    LET kept == SelectSeq(Positions(s),
                          LAMBDA i : ~(s[i] = SPACE /\ i < Len(s) /\ s[i + 1] = c))
    IN  [k \in 1..Len(kept) |-> s[kept[k]]]

\* str.split(): the whitespace-delimited words, each from the first to the
\* last character of a maximal run without whitespace
Split(s) ==
    LET first == SelectSeq(Positions(s),
                           LAMBDA i : ~IsSpace(s[i]) /\ (i = 1 \/ IsSpace(s[i - 1])))
        last  == SelectSeq(Positions(s),
                           LAMBDA i : ~IsSpace(s[i]) /\ (i = Len(s) \/ IsSpace(s[i + 1])))
    IN  [k \in 1..Len(first) |-> SubSeq(s, first[k], last[k])]

\* ' '.join(words[lo..hi])
RECURSIVE JoinRange(_, _, _)
JoinRange(words, lo, hi) ==
    IF lo > hi THEN <<>>
    ELSE IF lo = hi THEN words[lo]
    ELSE LET mid == (lo + hi) \div 2
         IN  JoinRange(words, lo, mid) \o <<SPACE>> \o JoinRange(words, mid + 1, hi)

\* ' '.join(words)
Join(words) == JoinRange(words, 1, Len(words))

Ellipsis == <<PERIOD, PERIOD, PERIOD>>

(***************************************************************************)
(* ContentProcessor: text normalisation                                    *)
(***************************************************************************)
MaxHeadline == 80
KeptHeadline == 77

clean_hindi_text(text) ==
    LET removed  == RemoveUnwanted(text)
        replaced == DropSpaceBefore(DropSpaceBefore(removed, COMMA), PERIOD)
    IN  Strip(CollapseSpaces(replaced))

\* the headline before the length bound is applied
cleaned_headline(headline) ==
    clean_hindi_text(CollapseSpaces(Strip(headline)))

truncate_headline_keeps_80(headline) ==
    IF headline = <<>> THEN <<>>
    ELSE LET h == cleaned_headline(headline)
         IN  IF Len(h) > MaxHeadline THEN Take(h, MaxHeadline) \o Ellipsis ELSE h

process_headline(headline) ==
    IF headline = <<>> THEN <<>>
    ELSE LET h == cleaned_headline(headline)
         IN  IF Len(h) > MaxHeadline THEN Take(h, KeptHeadline) \o Ellipsis ELSE h

(***************************************************************************)
(* ContentProcessor.calculate_quality_score                                *)
(***************************************************************************)
\* story.get('image_url'), story.get('summary') ...: a story is a record
\* with every key the scraper's extract_story_data sets
HeadlineBandLow == 10
HeadlineBandMid == 20
HeadlineBandHigh == 100
SummaryBand == 50
FullHeadlinePoints == 40
PartHeadlinePoints == 20
ImagePoints == 30
SummaryPoints == 20
TypePoints == 10

headline_points_inclusive_20(story) ==
    IF Len(story.headline) >= HeadlineBandMid /\ Len(story.headline) < HeadlineBandHigh
    THEN FullHeadlinePoints
    ELSE IF Len(story.headline) >= HeadlineBandLow THEN PartHeadlinePoints ELSE 0

headline_points(story) ==
    IF Len(story.headline) > HeadlineBandMid /\ Len(story.headline) < HeadlineBandHigh
    THEN FullHeadlinePoints
    ELSE IF Len(story.headline) >= HeadlineBandLow THEN PartHeadlinePoints ELSE 0

image_points_always(story) == ImagePoints

image_points(story) == IF story.image_url # <<>> THEN ImagePoints ELSE 0

summary_points(story) == IF Len(story.summary) > SummaryBand THEN SummaryPoints ELSE 0

type_points(story) == IF story.crime_type # "general" THEN TypePoints ELSE 0

calculate_quality_score(story) ==
    headline_points(story) + image_points(story)
        + summary_points(story) + type_points(story)

(***************************************************************************)
(* ContentProcessor: summaries, images, validation                         *)
(***************************************************************************)
SummaryBudget == 200
SummaryFloor == 50
EnhanceWords == 30
MinHeadline == 10

\* "यह एक गंभीर अपराध की घटना है।"
DefaultSummary ==
    <<2351, 2361, 32, 2319, 2325, 32, 2327, 2306, 2349, 2368, 2352, 32, 2309,
      2346, 2352, 2366, 2343, 32, 2325, 2368, 32, 2328, 2335, 2344, 2366, 32,
      2361, 2376, 2404>>

\* " पुलिस जांच में जुटी है और आरोपियों की तलाश जारी है।"
SummaryContext ==
    <<32, 2346, 2369, 2354, 2367, 2360, 32, 2332, 2366, 2306, 2330, 32, 2350,
      2375, 2306, 32, 2332, 2369, 2335, 2368, 32, 2361, 2376, 32, 2324, 2352,
      32, 2310, 2352, 2379, 2346, 2367, 2351, 2379, 2306, 32, 2325, 2368, 32,
      2340, 2354, 2366, 2358, 32, 2332, 2366, 2352, 2368, 32, 2361, 2376, 2404>>

generate_summary_keeps_max_words(text, max_words) ==
    LET words == Split(text)
    IN  IF Len(words) <= max_words THEN text
        ELSE Join(Take(words, max_words)) \o Ellipsis

generate_summary(text, max_words) ==
    LET words == Split(text)
    IN  IF Len(words) <= max_words THEN text
        ELSE Join(Take(words, max_words - 3)) \o Ellipsis

enhance_summary_without_context(summary) ==
    IF summary = <<>> THEN DefaultSummary ELSE summary

enhance_summary(summary) ==
    LET s == IF summary = <<>> THEN DefaultSummary ELSE summary
    IN  IF Len(Split(s)) < EnhanceWords THEN s \o SummaryContext ELSE s

\* the summary after strip, re.sub(r'\s+', ' ', ...) and clean_hindi_text
cleaned_summary(summary, story_url, fetched) ==
    clean_hindi_text(CollapseSpaces(Strip(
        IF summary = <<>> /\ story_url # <<>> THEN fetched ELSE summary)))

\* fetched: what fetch_story_content returns for the story's URL, the text
\* of the article or "" when the request fails
process_summary(summary, story_url, fetched) ==
    LET s0 == IF summary = <<>> /\ story_url # <<>> THEN fetched ELSE summary
        s1 == clean_hindi_text(CollapseSpaces(Strip(s0)))
    IN  IF Len(s1) > SummaryBudget THEN generate_summary(s1, SummaryBudget)
        ELSE IF Len(s1) < SummaryFloor THEN enhance_summary(s1)
        ELSE s1

\* downloaded: whether the image was fetched, decoded and saved; the path
\* temp_dir/story_<index>_image.jpg is written <<index>>, "" is <<>>
process_image(image_url, story_index, downloaded) ==
    IF image_url = <<>> THEN <<>>
    ELSE IF downloaded THEN <<story_index>> ELSE <<>>

validate_accepts_any_headline(story) ==
    ~(story.summary = <<>> \/ Len(story.summary) < SummaryFloor)

validate_processed_story(story) ==
    IF story.headline = <<>> \/ Len(story.headline) < MinHeadline THEN FALSE
    ELSE IF story.summary = <<>> \/ Len(story.summary) < SummaryFloor THEN FALSE
    ELSE IF ~(\E i \in 1..Len(story.headline) : IsHindi(story.headline[i])) THEN FALSE
    ELSE TRUE

\* the value process_single_story returns for a rejected story
None == [id |-> 0]

process_single_story(story, index, fetched, downloaded) ==
    LET processed_story ==
            [id |-> index,
             original_data |-> story,
             headline |-> process_headline(story.headline),
             summary |-> process_summary(story.summary, story.story_url, fetched),
             image_path |-> process_image(story.image_url, index, downloaded),
             crime_type |-> story.crime_type,
             source |-> story.source]
    IN  IF validate_processed_story(processed_story) THEN processed_story ELSE None

(***************************************************************************)
(* ContentProcessor: ranking and selection                                 *)
(***************************************************************************)
\* list.sort(reverse=True, key=score) keeps stories of equal score in their
\* original order: each story goes behind every story ranked not lower
RECURSIVE insert_before_ties(_, _)
insert_before_ties(ranked, story) ==
    IF ranked = <<>> THEN <<story>>
    ELSE IF calculate_quality_score(Head(ranked)) > calculate_quality_score(story)
         THEN <<Head(ranked)>> \o insert_before_ties(Tail(ranked), story)
         ELSE <<story>> \o ranked

RECURSIVE insert_ranked(_, _)
insert_ranked(ranked, story) ==
    IF ranked = <<>> THEN <<story>>
    ELSE IF calculate_quality_score(Head(ranked)) >= calculate_quality_score(story)
         THEN <<Head(ranked)>> \o insert_ranked(Tail(ranked), story)
         ELSE <<story>> \o ranked

RECURSIVE sort_stories_by_quality(_)
sort_stories_by_quality(list) ==
    IF list = <<>> THEN <<>>
    ELSE insert_ranked(sort_stories_by_quality(SubSeq(list, 1, Len(list) - 1)),
                       list[Len(list)])

candidates_all(list, limit) == sort_stories_by_quality(list)

\* sorted_stories[:max_stories]
candidates(list, limit) == Slice(sort_stories_by_quality(list), limit)

\* numbering by the running count of the stories kept so far
RECURSIVE process_loop_renumbering(_, _, _, _, _, _)
process_loop_renumbering(cands, i, fetched, downloaded, raised, processed) ==
    IF i > Len(cands) THEN processed
    ELSE LET processed_story ==
                 IF raised[i] THEN None
                 ELSE process_single_story(cands[i], Len(processed) + 1,
                                           fetched[i], downloaded[i])
         IN  process_loop_renumbering(cands, i + 1, fetched, downloaded, raised,
                          IF processed_story # None
                          THEN Append(processed, processed_story)
                          ELSE processed)

\* the loop that an exception leaves: the stories kept before it are returned
RECURSIVE process_loop_aborting(_, _, _, _, _, _)
process_loop_aborting(cands, i, fetched, downloaded, raised, processed) ==
    IF i > Len(cands) \/ raised[i] THEN processed
    ELSE LET processed_story ==
                 process_single_story(cands[i], i, fetched[i], downloaded[i])
         IN  process_loop_aborting(cands, i + 1, fetched, downloaded, raised,
                          IF processed_story # None
                          THEN Append(processed, processed_story)
                          ELSE processed)

\* the loop of process_stories over the candidates from position i on;
\* fetched[i] and downloaded[i] are what the network gives for candidate i,
\* raised[i] says that processing it raises: except Exception: continue
RECURSIVE process_loop(_, _, _, _, _, _)
process_loop(cands, i, fetched, downloaded, raised, processed) ==
    IF i > Len(cands) THEN processed
    ELSE LET processed_story ==
                 IF raised[i] THEN None
                 ELSE process_single_story(cands[i], i, fetched[i], downloaded[i])
         IN  process_loop(cands, i + 1, fetched, downloaded, raised,
                          IF processed_story # None
                          THEN Append(processed, processed_story)
                          ELSE processed)

\* the first `limit` valid stories of the whole ranked list
process_stories_refilling(list, limit, fetched, downloaded, raised) ==
    LET ranked == sort_stories_by_quality(list)
        made == process_loop(ranked, 1,
                    [i \in 1..Len(ranked) |->
                        IF i \in DOMAIN fetched THEN fetched[i] ELSE <<>>],
                    [i \in 1..Len(ranked) |->
                        IF i \in DOMAIN downloaded THEN downloaded[i] ELSE FALSE],
                    [i \in 1..Len(ranked) |->
                        IF i \in DOMAIN raised THEN raised[i] ELSE FALSE],
                    <<>>)
    IN  Slice(made, limit)

process_stories(list, limit, fetched, downloaded, raised) ==
    process_loop(candidates(list, limit), 1, fetched, downloaded, raised, <<>>)

(***************************************************************************)
(* CrimeNewsScraper: deduplication                                         *)
(***************************************************************************)
ThresholdNum == 7
ThresholdDen == 10

\* set(text.lower().split())
TokenSet(text) == LET w == Split(Lower(text)) IN {w[i] : i \in 1..Len(w)}

\* the token sets taken without lower()
calculate_similarity_case_sensitive(text1, text2) ==
    LET w1 == Split(text1)
        w2 == Split(text2)
        set1 == {w1[i] : i \in 1..Len(w1)}
        set2 == {w2[i] : i \in 1..Len(w2)}
    IN  IF Cardinality(set1 \cup set2) = 0 THEN [num |-> 0, den |-> 1]
        ELSE [num |-> Cardinality(set1 \cap set2), den |-> Cardinality(set1 \cup set2)]

\* the quotient len(intersection) / len(union) as a fraction; 0 is 0/1
calculate_similarity(text1, text2) ==
    LET set1 == TokenSet(text1)
        set2 == TokenSet(text2)
    IN  IF Cardinality(set1 \cup set2) = 0 THEN [num |-> 0, den |-> 1]
        ELSE [num |-> Cardinality(set1 \cap set2), den |-> Cardinality(set1 \cup set2)]

\* similarity > 0.7
above_threshold(sim) == sim.num * ThresholdDen > ThresholdNum * sim.den

is_duplicate_of_last(headline, seen_headlines) ==
    /\ seen_headlines # <<>>
    /\ above_threshold(calculate_similarity(headline, seen_headlines[Len(seen_headlines)]))

is_duplicate(headline, seen_headlines) ==
    \E k \in 1..Len(seen_headlines) :
        above_threshold(calculate_similarity(headline, seen_headlines[k]))

\* every headline is remembered, also that of a dropped story
RECURSIVE dedup_loop_seeing_all(_, _, _)
dedup_loop_seeing_all(rest, unique_stories, seen_headlines) ==
    IF rest = <<>> THEN unique_stories
    ELSE LET story == Head(rest)
         IN  IF ~is_duplicate(story.headline, seen_headlines)
             THEN dedup_loop_seeing_all(Tail(rest), Append(unique_stories, story),
                                        Append(seen_headlines, story.headline))
             ELSE dedup_loop_seeing_all(Tail(rest), unique_stories,
                                        Append(seen_headlines, story.headline))

\* the loop of remove_duplicates over the stories not yet looked at
RECURSIVE dedup_loop(_, _, _)
dedup_loop(rest, unique_stories, seen_headlines) ==
    IF rest = <<>> THEN unique_stories
    ELSE LET story == Head(rest)
         IN  IF ~is_duplicate(story.headline, seen_headlines)
             THEN dedup_loop(Tail(rest), Append(unique_stories, story),
                             Append(seen_headlines, story.headline))
             ELSE dedup_loop(Tail(rest), unique_stories, seen_headlines)

\* unique_stories.insert(0, story) in place of append
remove_duplicates_newest_first(list) ==
    LET unique_stories == dedup_loop(list, <<>>, <<>>)
    IN  [i \in 1..Len(unique_stories) |->
            unique_stories[Len(unique_stories) + 1 - i]]

remove_duplicates(list) == dedup_loop(list, <<>>, <<>>)

(***************************************************************************)
(* Normaliser: process_headline applied to a text, and applied again to    *)
(* its own result.                                                         *)
(***************************************************************************)
MaxText == 5
MaxTail == 2
MaxPad == 4

TextAlphabet == {SPACE, TAB, COMMA, PERIOD, KA, ZWJ}

TextsUpTo(n) == UNION {[1..k -> TextAlphabet] : k \in 0..n}

\* texts around the length bound: a run of letters, a short tail, a run of letters
LongTexts ==
    {Rep(KA, n) \o t \o Rep(LATIN_A, m) :
        n \in (KeptHeadline - MaxTail)..KeptHeadline,
        t \in TextsUpTo(MaxTail),
        m \in 0..MaxPad}

HeadlineInputs == TextsUpTo(MaxText) \cup LongTexts

NoStory == [headline |-> <<>>, summary |-> <<>>, image_url |-> <<>>,
            story_url |-> <<>>, crime_type |-> "", source |-> ""]

IdleNormaliser == headline_in = <<>> /\ headline_out = <<>>
IdleScorer == scored = NoStory /\ score = 0
IdlePipeline ==
    /\ all_stories = <<>>
    /\ stories = <<>>
    /\ max_stories = 0
    /\ processed_stories = <<>>

IdleStories == IdleNormaliser /\ IdleScorer /\ IdlePipeline

NoSummary == [summary |-> <<>>, story_url |-> <<>>, fetched |-> <<>>]

IdleSummariser == summary_in = NoSummary /\ summary_out = <<>>
NoTexts == [text1 |-> <<>>, text2 |-> <<>>]

IdleSimilarity == similarity_in = NoTexts /\ similarity = [num |-> 0, den |-> 1]
IdleClassifier ==
    /\ candidate = NoStory
    /\ classified = ""
    /\ valid = FALSE
    /\ extracted = None
NoWrap == [text |-> <<>>, font |-> 0, max_width |-> 0]

IdleWrapper ==
    /\ wrap_in = NoWrap
    /\ remaining_words = <<>>
    /\ current_line = <<>>
    /\ lines = <<>>
IdleText == IdleSummariser /\ IdleSimilarity /\ IdleClassifier /\ IdleWrapper

\* what create_static_video meets in the file system: whether the image file
\* exists, and which of its guarded blocks raise
NoFailure == [image_exists |-> FALSE, background_raises |-> FALSE,
              headline_fonts_raise |-> FALSE, summary_font_raises |-> FALSE,
              source_font_raises |-> FALSE, render_raises |-> FALSE]
NoProcessed == [id |-> 0, headline |-> <<>>, summary |-> <<>>,
                image_path |-> <<>>, source |-> ""]
NoFrame == [background |-> "", headline_font |-> "", summary_font |-> "",
            source_font |-> "", headline |-> <<>>, summary |-> <<>>,
            source |-> ""]

IdleRender ==
    /\ video_in = [story_data |-> NoProcessed, files |-> NoFailure]
    /\ video_path = None
    /\ frame = NoFrame
NoMeeting == [fetched |-> <<>>, downloaded |-> <<>>, raised |-> <<>>]

IdleBatch ==
    /\ process_in = NoMeeting
    /\ batch_in = [stories_data |-> <<>>, met |-> <<>>]
    /\ created_videos = <<>>

\* 'last_run': None
Never == 0
NoRate == [num |-> 0, den |-> 1]

\* self.stats as __init__ leaves it
NoStats == [last_run |-> Never, total_stories_scraped |-> 0,
            total_videos_created |-> 0, last_success_rate |-> NoRate,
            runs |-> <<>>]

IdleScheduler ==
    /\ stats = NoStats
    /\ saved_stats = NoStats
    /\ saves = 0
    /\ clock = 0
    /\ returned = FALSE

IdleRepeat ==
    /\ last_unique = <<>>
    /\ last_seen = <<>>
    /\ earlier_seen = <<>>

\* results as run_full_workflow builds it, the steps in the order of their keys
NoResults == [steps |-> <<>>, success |-> FALSE, error |-> ""]

IdleWorkflow ==
    /\ results = NoResults
    /\ workflow_saves = 0
    /\ workflow_returned = FALSE

\* self.driver = None
IdleScrape ==
    /\ driver = "none"
    /\ visited = <<>>
IdleCalls == IdleRepeat /\ IdleWorkflow /\ IdleScrape
IdleRun == IdleRender /\ IdleBatch /\ IdleScheduler /\ IdleCalls

InitNormalise ==
    /\ pc = "start"
    /\ headline_in \in HeadlineInputs
    /\ headline_out = <<>>
    /\ IdleScorer
    /\ IdlePipeline
    /\ IdleText
    /\ IdleRun

ProcessHeadline ==
    /\ pc = "start"
    /\ headline_out' = process_headline(headline_in)
    /\ pc' = "processed"
    /\ UNCHANGED <<headline_in, scored, score, all_stories, stories,
                   max_stories, processed_stories>>
    /\ UNCHANGED text_vars
    /\ UNCHANGED run_vars

ReprocessHeadline ==
    /\ pc = "processed"
    /\ headline_in' = headline_out
    /\ headline_out' = process_headline(headline_out)
    /\ pc' = "reprocessed"
    /\ UNCHANGED <<scored, score, all_stories, stories,
                   max_stories, processed_stories>>
    /\ UNCHANGED text_vars
    /\ UNCHANGED run_vars

NextNormalise == ProcessHeadline \/ ReprocessHeadline

SpecNormalise == InitNormalise /\ [][NextNormalise]_vars

\* C7: process_headline is idempotent: applied to its own result it returns
\* that result unchanged.
C7_Idempotent ==
    pc = "reprocessed" => headline_out = headline_in

\* C10: process_headline returns at most 80 characters; a cleaned headline
\* longer than 80 characters comes back as its first 77 characters followed
\* by '...', any other cleaned headline comes back as it is.
C10_Truncation ==
    pc = "processed" =>
        LET c == cleaned_headline(headline_in)
        IN  /\ Len(headline_out) <= 80
            /\ Len(c) > 80 => headline_out = SubSeq(c, 1, 77) \o <<46, 46, 46>>
            /\ Len(c) <= 80 => headline_out = c

C10_Witness ==
    /\ pc = "processed"
    /\ Len(cleaned_headline(headline_in)) > 80
    /\ Len(headline_out) = 80
    /\ SubSeq(headline_out, 78, 80) = <<46, 46, 46>>

(***************************************************************************)
(* Scorer: calculate_quality_score applied to one story.                   *)
(***************************************************************************)
MaxScoredHeadline == 101
MaxScoredSummary == 60

\* "http"
ImageUrl == <<104, 116, 116, 112>>

ScoredStories ==
    {[headline |-> Rep(KA, n), summary |-> Rep(KA, m), image_url |-> u,
      story_url |-> <<>>, crime_type |-> t, source |-> "aajtak"] :
        n \in 0..MaxScoredHeadline, m \in (SummaryBand - 1)..MaxScoredSummary,
        u \in {<<>>, ImageUrl}, t \in {"general", "fraud"}}

InitScore ==
    /\ pc = "start"
    /\ scored \in ScoredStories
    /\ score = 0
    /\ IdleNormaliser
    /\ IdlePipeline
    /\ IdleText
    /\ IdleRun

CalculateQualityScore ==
    /\ pc = "start"
    /\ score' = calculate_quality_score(scored)
    /\ pc' = "scored"
    /\ UNCHANGED <<headline_in, headline_out, scored, all_stories, stories,
                   max_stories, processed_stories>>
    /\ UNCHANGED text_vars
    /\ UNCHANGED run_vars

NextScore == CalculateQualityScore

SpecScore == InitScore /\ [][NextScore]_vars

\* what the score owes to the image, the summary and the category
OtherPoints(story) ==
    (IF story.image_url # <<>> THEN 30 ELSE 0)
        + (IF Len(story.summary) > 50 THEN 20 ELSE 0)
        + (IF story.crime_type # "general" THEN 10 ELSE 0)

\* C5 as claimed: the headline sub-score is 40 for 20..99 characters, 20 for
\* 10..19 characters and 0 for every other length.
C5_BandsAsClaimed ==
    pc = "scored" =>
        LET n == Len(scored.headline)
        IN  score - OtherPoints(scored) =
                IF n >= 20 /\ n <= 99 THEN 40
                ELSE IF n >= 10 /\ n <= 19 THEN 20 ELSE 0

\* C5 amended: the headline sub-score is 40 for 21..99 characters, 20 for
\* 10..20 characters and for 100 characters and more, 0 for fewer than 10.
C5_Bands ==
    pc = "scored" =>
        LET n == Len(scored.headline)
        IN  score - OtherPoints(scored) =
                IF n >= 21 /\ n <= 99 THEN 40
                ELSE IF n >= 10 THEN 20 ELSE 0

C5_Witness ==
    /\ pc = "scored"
    /\ Len(scored.headline) = 100
    /\ score - OtherPoints(scored) = 20

\* C6: the score is the sum of the headline band (0, 20 or 40), 30 for an
\* image, 20 for a summary longer than 50 characters and 10 for a category
\* other than general; it lies in 0..100 and is 100 for a 30-character
\* headline with an image, a 60-character summary and category fraud.
C6_Score ==
    pc = "scored" =>
        /\ score \in 0..100
        /\ score - OtherPoints(scored) \in {0, 20, 40}
        /\ (/\ Len(scored.headline) = 30
            /\ scored.image_url # <<>>
            /\ Len(scored.summary) = 60
            /\ scored.crime_type = "fraud") => score = 100

C6_Witness ==
    /\ pc = "scored"
    /\ Len(scored.headline) = 30
    /\ scored.image_url # <<>>
    /\ Len(scored.summary) = 60
    /\ scored.crime_type = "fraud"
    /\ score = 100

(***************************************************************************)
(* Selector: process_stories called on a list of stories with a limit.     *)
(***************************************************************************)
MaxStories == 3
MaxLimit == 3

\* the limits of a call: 1..MaxLimit, and 0 and -1, which are not positive
Limits == {-1} \cup (0..MaxLimit)

StoryUrl == <<104, 116, 116, 112, 115>>

LongSummary == Rep(KA, 60)

\* the text fetch_story_content finds at a story's URL when the request succeeds
ArticleText == Rep(KA, 55)

Story(h, s, img, url, type, src) ==
    [headline |-> h, summary |-> s, image_url |-> img, story_url |-> url,
     crime_type |-> type, source |-> src]

LongHeadline == Rep(KA, 25)
ShortHeadline == Rep(KA, 12)
LatinHeadline == Rep(LATIN_A, 25)
\* 12 characters, one of them left by clean_hindi_text
JoinerHeadline == <<KA>> \o Rep(ZWJ, 11)

SelectPool ==
    {Story(LongHeadline, <<>>, <<>>, <<>>, "fraud", "aajtak"),
     Story(LongHeadline, LongSummary, <<>>, <<>>, "fraud", "aajtak"),
     Story(LongHeadline, <<>>, ImageUrl, <<>>, "fraud", "amarujala"),
     Story(ShortHeadline, <<>>, <<>>, <<>>, "fraud", "amarujala"),
     Story(ShortHeadline, <<>>, <<>>, StoryUrl, "fraud", "indiatoday"),
     Story(LatinHeadline, LongSummary, <<>>, <<>>, "fraud", "indiatoday"),
     Story(JoinerHeadline, <<>>, <<>>, <<>>, "general", "aajtak")}

InitSelect ==
    /\ pc = "feed"
    /\ all_stories = <<>>
    /\ stories = <<>>
    /\ max_stories = 0
    /\ processed_stories = <<>>
    /\ IdleNormaliser
    /\ IdleScorer
    /\ IdleText
    /\ IdleRun

\* the caller builds the list it will pass to process_stories
Feed(story) ==
    /\ pc = "feed"
    /\ Len(stories) < MaxStories
    /\ stories' = Append(stories, story)
    /\ UNCHANGED <<pc, headline_in, headline_out, scored, score, all_stories,
                   max_stories, processed_stories>>
    /\ UNCHANGED text_vars
    /\ UNCHANGED run_vars

\* the candidates whose image is requested, and those whose summary is fetched
ImagePositions(cands) == {i \in 1..Len(cands) : cands[i].image_url # <<>>}
FetchPositions(cands) ==
    {i \in 1..Len(cands) : cands[i].summary = <<>> /\ cands[i].story_url # <<>>}

\* the stories are of the shape extract_story_data builds, every field a
\* string: processing none of them raises
ProcessStories(from, limit) ==
    /\ pc = from
    /\ LET cands == candidates(stories, limit)
       IN  \E dl \in SUBSET ImagePositions(cands), ft \in SUBSET FetchPositions(cands) :
              processed_stories' =
                  process_stories(stories, limit,
                      [i \in 1..Len(cands) |-> IF i \in ft THEN ArticleText ELSE <<>>],
                      [i \in 1..Len(cands) |-> i \in dl],
                      [i \in 1..Len(cands) |-> FALSE])
    /\ max_stories' = limit
    /\ pc' = "processed"
    /\ UNCHANGED <<headline_in, headline_out, scored, score, all_stories, stories>>
    /\ UNCHANGED text_vars
    /\ UNCHANGED run_vars

NextSelect ==
    \/ \E story \in SelectPool : Feed(story)
    \/ \E limit \in Limits : ProcessStories("feed", limit)

SpecSelect == InitSelect /\ [][NextSelect]_vars

Ids(list) == [i \in 1..Len(list) |-> list[i].id]

\* C2 as claimed: for a positive limit the ids of the returned stories are
\* exactly 1..len(output) in output order.
C2_IdsContiguous ==
    (pc = "processed" /\ max_stories > 0) =>
        \A i \in 1..Len(processed_stories) : processed_stories[i].id = i

\* C2 amended: for a positive limit the id of a returned story is its
\* 1-based position among the first `limit` stories of the ranked list, so the
\* ids are strictly increasing values in 1..min(limit, len(input)).
C2_IdsAreRanks ==
    (pc = "processed" /\ max_stories > 0) =>
        /\ \A i \in 1..Len(processed_stories) :
              /\ processed_stories[i].id \in 1..max_stories
              /\ processed_stories[i].id \in 1..Len(stories)
              /\ processed_stories[i].original_data =
                     sort_stories_by_quality(stories)[processed_stories[i].id]
        /\ \A i, j \in 1..Len(processed_stories) :
              i < j => processed_stories[i].id < processed_stories[j].id

C2_Witness ==
    /\ pc = "processed"
    /\ max_stories > 0
    /\ Len(processed_stories) = 2
    /\ Ids(processed_stories) = <<1, 3>>

RECURSIVE IsSubsequence(_, _)
IsSubsequence(a, b) ==
    IF a = <<>> THEN TRUE
    ELSE IF b = <<>> THEN FALSE
    ELSE IF Head(a) = Head(b) THEN IsSubsequence(Tail(a), Tail(b))
    ELSE IsSubsequence(a, Tail(b))

\* the scraped stories behind the returned ones, in output order
Originals(list) == [i \in 1..Len(list) |-> list[i].original_data]

\* the stories of a list whose quality score is v, in list order
WithScore(list, v) == SelectSeq(list, LAMBDA x : calculate_quality_score(x) = v)

\* C3: the returned stories are in non-increasing order of quality score,
\* and returned stories of equal score are in their input order.
C3_StableDescending ==
    pc = "processed" =>
        /\ \A i, j \in 1..Len(processed_stories) :
              i < j => calculate_quality_score(processed_stories[i].original_data)
                           >= calculate_quality_score(processed_stories[j].original_data)
        /\ \A v \in {calculate_quality_score(stories[k]) : k \in 1..Len(stories)} :
              IsSubsequence(WithScore(Originals(processed_stories), v),
                            WithScore(stories, v))

C3_Witness ==
    /\ pc = "processed"
    /\ Len(processed_stories) = 3
    /\ calculate_quality_score(processed_stories[1].original_data)
           > calculate_quality_score(processed_stories[2].original_data)
    /\ calculate_quality_score(processed_stories[2].original_data)
           = calculate_quality_score(processed_stories[3].original_data)
    /\ processed_stories[2].original_data # processed_stories[3].original_data
    /\ stories[1] = processed_stories[2].original_data
    /\ stories[2] = processed_stories[3].original_data

\* C4: for a positive limit process_stories returns at most limit stories.
C4_AtMostLimit ==
    (pc = "processed" /\ max_stories > 0) => Len(processed_stories) <= max_stories

C4_Witness ==
    /\ pc = "processed"
    /\ max_stories > 0
    /\ Len(stories) > max_stories
    /\ Len(processed_stories) = max_stories

\* C9: every returned story has a processed headline of at least 10
\* characters with a character in U+0900..U+097F and a processed summary of at
\* least 50 characters; a candidate failing one of these is not returned.
C9_OutputValid ==
    pc = "processed" =>
        \A i \in 1..Len(processed_stories) :
            LET p == processed_stories[i]
            IN  /\ p.headline = process_headline(p.original_data.headline)
                /\ Len(p.headline) >= 10
                /\ \E k \in 1..Len(p.headline) : p.headline[k] \in 2304..2431
                /\ Len(p.summary) >= 50

\* a call that drops a candidate without a Hindi character and one whose
\* processed headline is too short, and returns a third
C9_Witness ==
    /\ pc = "processed"
    /\ max_stories = 3
    /\ Len(stories) = 3
    /\ Len(processed_stories) = 1
    /\ \E i \in 1..3 : stories[i].headline = LatinHeadline
    /\ \E i \in 1..3 : stories[i].headline = JoinerHeadline

\* C22 as claimed: a call of process_stories with a limit of zero or less
\* is reported upward as a contract violation and yields no normal result, so
\* every call that returned had a positive limit.
C22_NonPositiveLimitRejected ==
    pc = "processed" => max_stories > 0

\* C26: for a positive limit only the first `limit` stories of the ranked
\* list are candidates: the returned stories are, in order, among those
\* candidates, a candidate that fails validation is not replaced by a story
\* ranked below the cut, and so fewer than `limit` stories, or none, can be
\* returned while valid stories remain below it.
C26_NoRefill ==
    (pc = "processed" /\ max_stories > 0) =>
        LET first == Take(sort_stories_by_quality(stories), max_stories)
        IN  /\ IsSubsequence(Originals(processed_stories), first)
            /\ \A i \in 1..Len(processed_stories) :
                  processed_stories[i].id <= Len(first)

\* nothing is returned for a limit of 1 although the story ranked second
\* passes validation
C26_Witness ==
    /\ pc = "processed"
    /\ max_stories = 1
    /\ processed_stories = <<>>
    /\ Len(stories) >= 2
    /\ process_single_story(sort_stories_by_quality(stories)[2], 2, <<>>, FALSE)
           # None

(***************************************************************************)
(* Curation pipeline: scrape_all_sources collects the stories of the       *)
(* sources and removes duplicates, run_full_workflow hands the result to   *)
(* process_stories.                                                        *)
(***************************************************************************)
VocabSize == 10
WorkflowLimit == 4

\* "हत्या", a keyword of category murder
Hatya == <<2361, 2340, 2381, 2351, 2366>>

\* word 1 is the keyword, word i > 1 a single letter
Word(i) == IF i = 1 THEN Hatya ELSE <<KA + i>>

\* the headline of words i..j
Words(i, j) == Join([k \in 1..(j - i + 1) |-> Word(i + k - 1)])

\* the headline of words 1..j, words 2..5 each followed by a zero-width joiner
JoinedWords(j) ==
    Join([k \in 1..j |-> IF k \in 2..5 THEN Word(k) \o <<ZWJ>> ELSE Word(k)])

\* "AB CD EF" and "ab cd ef"
UpperWords == <<65, 66, 32, 67, 68, 32, 69, 70>>
LowerWords == <<97, 98, 32, 99, 100, 32, 101, 102>>

\* headlines of other words, and headlines that differ in case only
OtherHeadlines ==
    {Hatya \o <<SPACE>> \o Words(31, 36),
     UpperWords \o <<SPACE>> \o Words(1, 2),
     LowerWords \o <<SPACE>> \o Words(1, 2)}

\* headlines for deduplication: the first 7, 8, ... words, sharing j of k tokens
DedupHeadlines == {Words(1, j) : j \in 7..VocabSize} \cup OtherHeadlines

\* headlines for the pipeline: two that differ in zero-width joiners only
ScrapedHeadlines == {Words(1, 8), JoinedWords(8)} \cup OtherHeadlines

\* a story that passed validate_story: a Hindi headline of 10 characters or
\* more with a keyword of its category
Scraped(h) == Story(h, <<>>, <<>>, <<>>, "murder", "aajtak")

DedupPool == {Scraped(h) : h \in DedupHeadlines}
ScrapedPool == {Scraped(h) : h \in ScrapedHeadlines}

Init ==
    /\ pc = "collect"
    /\ all_stories = <<>>
    /\ stories = <<>>
    /\ max_stories = 0
    /\ processed_stories = <<>>
    /\ IdleNormaliser
    /\ IdleScorer
    /\ IdleText
    /\ IdleRun

\* all_stories.extend(...): a source delivers one more story
Collect(story) ==
    /\ pc = "collect"
    /\ Len(all_stories) < MaxStories
    /\ all_stories' = Append(all_stories, story)
    /\ UNCHANGED <<pc, headline_in, headline_out, scored, score, stories,
                   max_stories, processed_stories>>
    /\ UNCHANGED text_vars
    /\ UNCHANGED run_vars

\* scrape_all_sources returns remove_duplicates(all_stories)
RemoveDuplicates ==
    /\ pc = "collect"
    /\ stories' = remove_duplicates(all_stories)
    /\ pc' = "deduplicated"
    /\ UNCHANGED <<headline_in, headline_out, scored, score, all_stories,
                   max_stories, processed_stories>>
    /\ UNCHANGED text_vars
    /\ UNCHANGED run_vars

\* run_full_workflow stops when no story was found
RunProcessing ==
    /\ Len(stories) # 0
    /\ ProcessStories("deduplicated", WorkflowLimit)

Next ==
    \/ \E story \in ScrapedPool : Collect(story)
    \/ RemoveDuplicates
    \/ RunProcessing

Spec == Init /\ [][Next]_vars

\* scrape_all_sources alone
NextDedup ==
    \/ \E story \in DedupPool : Collect(story)
    \/ RemoveDuplicates

SpecDedup == Init /\ [][NextDedup]_vars

\* |A \cap B| / |A \cup B| >= 0.7 for the token sets of two headlines
JaccardAtLeast07(a, b) ==
    LET A == TokenSet(a)
        B == TokenSet(b)
    IN  A \cup B # {} /\ 10 * Cardinality(A \cap B) >= 7 * Cardinality(A \cup B)

\* |A \cap B| / |A \cup B| > 0.7
JaccardAbove07(a, b) ==
    LET A == TokenSet(a)
        B == TokenSet(b)
    IN  A \cup B # {} /\ 10 * Cardinality(A \cap B) > 7 * Cardinality(A \cup B)

\* C1 as claimed: no two stories remove_duplicates returns have headlines of
\* token-set Jaccard similarity 0.7 or more.
C1_NoPairAtLeast07 ==
    pc = "deduplicated" =>
        \A i, j \in 1..Len(stories) :
            i < j => ~JaccardAtLeast07(stories[i].headline, stories[j].headline)

\* C1 amended: no two stories remove_duplicates returns have headlines of
\* token-set Jaccard similarity greater than 0.7 (a pair at exactly 0.7 both
\* survive).
C1_NoPairAbove07 ==
    pc = "deduplicated" =>
        \A i, j \in 1..Len(stories) :
            i < j => ~JaccardAbove07(stories[i].headline, stories[j].headline)

\* a story was dropped, and a pair at exactly 0.7 was kept
C1_Witness ==
    /\ pc = "deduplicated"
    /\ Len(stories) < Len(all_stories)
    /\ \E i, j \in 1..Len(stories) :
          /\ i < j
          /\ JaccardAtLeast07(stories[i].headline, stories[j].headline)

\* C13: the output of remove_duplicates is a subsequence of its input: every
\* returned story is an input story and the kept stories are in input order.
C13_Subsequence ==
    pc = "deduplicated" =>
        /\ \A i \in 1..Len(stories) :
              \E k \in 1..Len(all_stories) : stories[i] = all_stories[k]
        /\ IsSubsequence(stories, all_stories)

\* the third of three different stories was dropped
C13_Witness ==
    /\ pc = "deduplicated"
    /\ Len(all_stories) = 3
    /\ all_stories[1] # all_stories[2]
    /\ all_stories[3] \notin {all_stories[1], all_stories[2]}
    /\ stories = <<all_stories[1], all_stories[2]>>

\* two stories are near-duplicates when remove_duplicates takes one for the other
NearDuplicates(a, b) == JaccardAbove07(a.headline, b.headline)

\* the story at position i is kept when no story kept before it is a
\* near-duplicate of it
RECURSIVE KeptAt(_, _)
KeptAt(list, i) ==
    \A j \in 1..(i - 1) : ~(KeptAt(list, j) /\ NearDuplicates(list[j], list[i]))

\* the cluster of a set of positions: what chains of at most n
\* near-duplicate pairs reach from it
RECURSIVE Cluster(_, _, _)
Cluster(list, members, n) ==
    IF n = 0 THEN members
    ELSE Cluster(list,
                 members \cup {k \in 1..Len(list) :
                                 \E i \in members : NearDuplicates(list[i], list[k])},
                 n - 1)

C8_NoCuratedNearDuplicates ==
    pc = "processed" =>
        \A i, j \in 1..Len(processed_stories) :
            i < j => ~JaccardAtLeast07(processed_stories[i].headline,
                                       processed_stories[j].headline)

(***************************************************************************)
(* Summariser: process_summary applied to a summary, a story URL and what  *)
(* the URL delivers.                                                       *)
(***************************************************************************)
MaxSummaryChars == 203
MaxSummaryWords == 202
MaxShortWords == 27
MaxWordLen == 2

\* n words of wl letters each, separated by sep
WordRun(n, wl, sep) ==
    IF n = 0 THEN <<>>
    ELSE Rep(KA, wl) \o [i \in 1..((n - 1) * (Len(sep) + wl)) |->
                            IF ((i - 1) % (Len(sep) + wl)) < Len(sep)
                            THEN sep[((i - 1) % (Len(sep) + wl)) + 1]
                            ELSE KA]

Separators == {<<SPACE>>, <<SPACE, TAB>>}

\* one word of every length; runs of words around the 50-character floor and
\* around the 200-word budget; short texts with characters the cleaning drops
SummaryTexts ==
    {Rep(KA, n) : n \in 0..MaxSummaryChars}
        \cup {WordRun(n, 1, sep) : n \in 0..MaxShortWords, sep \in Separators}
        \cup {WordRun(n, wl, sep) :
                 n \in (SummaryBudget - 3)..MaxSummaryWords,
                 wl \in 1..MaxWordLen, sep \in Separators}
        \cup TextsUpTo(MaxTail)

\* a call with a summary, and a call without one for a story with a URL
SummaryCalls ==
    {[summary |-> s, story_url |-> u, fetched |-> <<>>] :
        s \in SummaryTexts, u \in {<<>>, StoryUrl}}
        \cup {[summary |-> <<>>, story_url |-> StoryUrl, fetched |-> f] :
                 f \in {ArticleText, ShortHeadline, WordRun(MaxSummaryWords, 1, <<SPACE>>)}}

InitSummarise ==
    /\ pc = "start"
    /\ summary_in \in SummaryCalls
    /\ summary_out = <<>>
    /\ IdleStories
    /\ IdleSimilarity
    /\ IdleClassifier
    /\ IdleWrapper
    /\ IdleRun

ProcessSummary ==
    /\ pc = "start"
    /\ summary_out' =
           process_summary(summary_in.summary, summary_in.story_url, summary_in.fetched)
    /\ pc' = "summarised"
    /\ UNCHANGED <<summary_in, story_vars, similarity_vars, classifier_vars, wrap_vars>>
    /\ UNCHANGED run_vars

NextSummarise == ProcessSummary

SpecSummarise == InitSummarise /\ [][NextSummarise]_vars

\* the cleaned text of the call
Cleaned == cleaned_summary(summary_in.summary, summary_in.story_url, summary_in.fetched)

\* C11: a summary whose cleaned text has more than 200 words comes back as
\* its first 197 words joined by single spaces followed by '...'; a summary
\* of at most 200 words keeps every word of its cleaned text.
C11_WordBudget ==
    pc = "summarised" =>
        LET w == Split(Cleaned)
        IN  /\ Len(w) > 200 =>
                  summary_out = Join(SubSeq(w, 1, 197)) \o <<46, 46, 46>>
            /\ Len(w) <= 200 =>
                  /\ Len(summary_out) >= Len(Cleaned)
                  /\ SubSeq(summary_out, 1, Len(Cleaned)) = Cleaned

C11_Witness ==
    /\ pc = "summarised"
    /\ Len(Split(Cleaned)) = 201
    /\ Len(Split(summary_out)) = 197
    /\ SubSeq(summary_out, Len(summary_out) - 2, Len(summary_out)) = <<46, 46, 46>>

\* C12: a summary whose cleaned text has fewer than 50 characters comes back
\* as that text, or the default sentence when the text is empty, followed by
\* the contextual sentence; no returned summary has fewer than 50 characters.
C12_Floor ==
    pc = "summarised" =>
        /\ Len(Cleaned) < 50 =>
              summary_out =
                  (IF Cleaned = <<>> THEN DefaultSummary ELSE Cleaned) \o SummaryContext
        /\ Len(summary_out) >= 50

C12_Witness ==
    /\ pc = "summarised"
    /\ Len(Cleaned) = 49
    /\ Len(Split(Cleaned)) = 25
    /\ Len(summary_out) = 49 + Len(SummaryContext)

(***************************************************************************)
(* Similarity: calculate_similarity applied to two texts.                  *)
(***************************************************************************)
MaxTokenText == 3

\* a space, the letter "a" in both cases and a Hindi letter
TokenAlphabet == {SPACE, LATIN_A, LATIN_A - 32, KA}

TokenTexts == UNION {[1..k -> TokenAlphabet] : k \in 0..MaxTokenText}

InitSimilarity ==
    /\ pc = "start"
    /\ similarity_in \in [text1 : TokenTexts, text2 : TokenTexts]
    /\ similarity = [num |-> 0, den |-> 1]
    /\ IdleStories
    /\ IdleSummariser
    /\ IdleClassifier
    /\ IdleWrapper
    /\ IdleRun

CalculateSimilarity ==
    /\ pc = "start"
    /\ similarity' = calculate_similarity(similarity_in.text1, similarity_in.text2)
    /\ pc' = "compared"
    /\ UNCHANGED <<similarity_in, story_vars, summary_vars, classifier_vars, wrap_vars>>
    /\ UNCHANGED run_vars

NextSimilarity == CalculateSimilarity

SpecSimilarity == InitSimilarity /\ [][NextSimilarity]_vars

\* the case-folded tokens of a text: its maximal runs of characters other
\* than whitespace, capital letters replaced by small ones
FoldedTokens(t) ==
    LET f == [i \in 1..Len(t) |-> IF t[i] \in 65..90 THEN t[i] + 32 ELSE t[i]]
    IN  {SubSeq(f, x[1], x[2]) : x \in
            {y \in (1..Len(f)) \X (1..Len(f)) :
                /\ y[1] <= y[2]
                /\ \A k \in y[1]..y[2] : f[k] \notin WhitespaceChars
                /\ (y[1] = 1 \/ f[y[1] - 1] \in WhitespaceChars)
                /\ (y[2] = Len(f) \/ f[y[2] + 1] \in WhitespaceChars)}}

\* C15: calculate_similarity(a, b) is |A \cap B| / |A \cup B| for the sets A and
\* B of case-folded tokens of a and b, and 0 when both sets are empty; it
\* is symmetric, and it is 1 exactly when A and B are equal and not empty.
C15_Jaccard ==
    pc = "compared" =>
        LET A == FoldedTokens(similarity_in.text1)
            B == FoldedTokens(similarity_in.text2)
            reversed == calculate_similarity(similarity_in.text2, similarity_in.text1)
        IN  /\ similarity.den > 0
            /\ A \cup B = {} => similarity.num = 0
            /\ A \cup B # {} =>
                  similarity.num * Cardinality(A \cup B)
                      = Cardinality(A \cap B) * similarity.den
            /\ similarity.num * reversed.den = reversed.num * similarity.den
            /\ (similarity.num = similarity.den) <=> (A = B /\ A # {})

\* two texts that differ in case and in the order of their two tokens
C15_Witness ==
    /\ pc = "compared"
    /\ Lower(similarity_in.text1) # Lower(similarity_in.text2)
    /\ \E i \in 1..Len(similarity_in.text1) : similarity_in.text1[i] \in 65..90
    /\ similarity.num = 2
    /\ similarity.den = 2

(***************************************************************************)
(* CrimeNewsScraper: classification and validation of a scraped story      *)
(***************************************************************************)
MinStoryHeadline == 10

\* crime_keywords, in the order of the dict literal
crime_keywords ==
    << \* हत्या, मर्डर, खून, कत्ल, मार डाला, मौत
      [type |-> "murder", keywords |->
          <<<<2361, 2340, 2381, 2351, 2366>>,
            <<2350, 2352, 2381, 2337, 2352>>,
            <<2326, 2370, 2344>>,
            <<2325, 2340, 2381, 2354>>,
            <<2350, 2366, 2352, 32, 2337, 2366, 2354, 2366>>,
            <<2350, 2380, 2340>>>>],
       \* चोरी, चोर, चुराया, गायब, खोया
      [type |-> "theft", keywords |->
          <<<<2330, 2379, 2352, 2368>>,
            <<2330, 2379, 2352>>,
            <<2330, 2369, 2352, 2366, 2351, 2366>>,
            <<2327, 2366, 2351, 2348>>,
            <<2326, 2379, 2351, 2366>>>>],
       \* ठगी, धोखा, फ्रॉड, जालसाज, बेईमानी
      [type |-> "fraud", keywords |->
          <<<<2336, 2327, 2368>>,
            <<2343, 2379, 2326, 2366>>,
            <<2347, 2381, 2352, 2377, 2337>>,
            <<2332, 2366, 2354, 2360, 2366, 2332>>,
            <<2348, 2375, 2312, 2350, 2366, 2344, 2368>>>>],
       \* मारपीट, हमला, झगड़ा, लड़ाई
      [type |-> "assault", keywords |->
          <<<<2350, 2366, 2352, 2346, 2368, 2335>>,
            <<2361, 2350, 2354, 2366>>,
            <<2333, 2327, 2337, 2364, 2366>>,
            <<2354, 2337, 2364, 2366, 2312>>>>],
       \* बलात्कार, दुष्कर्म, छेड़छाड़
      [type |-> "rape", keywords |->
          <<<<2348, 2354, 2366, 2340, 2381, 2325, 2366, 2352>>,
            <<2342, 2369, 2359, 2381, 2325, 2352, 2381, 2350>>,
            <<2331, 2375, 2337, 2364, 2331, 2366, 2337, 2364>>>>],
       \* अपहरण, बंधक, गायब
      [type |-> "kidnapping", keywords |->
          <<<<2309, 2346, 2361, 2352, 2339>>,
            <<2348, 2306, 2343, 2325>>,
            <<2327, 2366, 2351, 2348>>>>],
       \* आतंकी, बम, धमाका, आतंकवाद
      [type |-> "terrorism", keywords |->
          <<<<2310, 2340, 2306, 2325, 2368>>,
            <<2348, 2350>>,
            <<2343, 2350, 2366, 2325, 2366>>,
            <<2310, 2340, 2306, 2325, 2357, 2366, 2342>>>>],
       \* भ्रष्टाचार, रिश्वत, घूस
      [type |-> "corruption", keywords |->
          <<<<2349, 2381, 2352, 2359, 2381, 2335, 2366, 2330, 2366, 2352>>,
            <<2352, 2367, 2358, 2381, 2357, 2340>>,
            <<2328, 2370, 2360>>>>] >>

\* crime_indicators: पुलिस, केस, गिरफ्तार, मुकदमा, अदालत, जेल
crime_indicators ==
    <<<<2346, 2369, 2354, 2367, 2360>>,
      <<2325, 2375, 2360>>,
      <<2327, 2367, 2352, 2347, 2381, 2340, 2366, 2352>>,
      <<2350, 2369, 2325, 2342, 2350, 2366>>,
      <<2309, 2342, 2366, 2354, 2340>>,
      <<2332, 2375, 2354>>>>

\* keyword in headline_lower: the keyword is a run of the text
Contains(s, keyword) ==
    \E i \in 0..(Len(s) - Len(keyword)) : SubSeq(s, i + 1, i + Len(keyword)) = keyword

\* whether one of the keywords is in the text
AnyContained(s, keywords) ==
    \E k \in 1..Len(keywords) : Contains(s, keywords[k])

\* the scan from the last category to the first
RECURSIVE classify_last_from(_, _)
classify_last_from(headline_lower, k) ==
    IF k < 1 THEN "general"
    ELSE IF AnyContained(headline_lower, crime_keywords[k].keywords)
         THEN crime_keywords[k].type
         ELSE classify_last_from(headline_lower, k - 1)

classify_crime_type_last_match(headline) ==
    classify_last_from(Lower(headline), Len(crime_keywords))

\* the loop over crime_keywords.items() from category k on
RECURSIVE classify_from(_, _)
classify_from(headline_lower, k) ==
    IF k > Len(crime_keywords) THEN "general"
    ELSE IF AnyContained(headline_lower, crime_keywords[k].keywords)
         THEN crime_keywords[k].type
         ELSE classify_from(headline_lower, k + 1)

classify_crime_type(headline) == classify_from(Lower(headline), 1)

validate_story_without_indicators(story) ==
    IF story.headline = <<>> \/ Len(story.headline) < MinStoryHeadline THEN FALSE
    ELSE IF ~(\E i \in 1..Len(story.headline) : IsHindi(story.headline[i])) THEN FALSE
    ELSE TRUE

validate_story(story) ==
    IF story.headline = <<>> \/ Len(story.headline) < MinStoryHeadline THEN FALSE
    ELSE IF ~(\E i \in 1..Len(story.headline) : IsHindi(story.headline[i])) THEN FALSE
    ELSE IF story.crime_type = "general"
            /\ ~AnyContained(story.headline, crime_indicators) THEN FALSE
    ELSE TRUE

\* element: the headline, summary and URLs found in the HTML element, the
\* URLs joined with the address of the site; raised: an exception was raised
\* while the element was read
extract_story_data(element, source, raised) ==
    LET story == [source |-> source,
                  headline |-> element.headline,
                  summary |-> element.summary,
                  image_url |-> element.image_url,
                  story_url |-> element.story_url,
                  crime_type |-> classify_crime_type(element.headline)]
    IN  IF raised THEN None
        ELSE IF validate_story(story) THEN story ELSE None

(***************************************************************************)
(* Classifier: classify_crime_type, validate_story and extract_story_data  *)
(* applied to a scraped story.                                             *)
(***************************************************************************)
MaxKeywords == 2
MaxPlainHeadline == 11

\* "नोएडा में "
Noida == <<2344, 2379, 2319, 2337, 2366, 32, 2350, 2375, 2306, 32>>

\* every keyword and every indicator word
AllKeywords ==
    UNION {{crime_keywords[k].keywords[i] : i \in 1..Len(crime_keywords[k].keywords)} :
             k \in 1..Len(crime_keywords)}
AllIndicators == {crime_indicators[i] : i \in 1..Len(crime_indicators)}

\* the first keyword of every category, the keyword two categories share,
\* and an indicator word
SomeKeywords ==
    {crime_keywords[k].keywords[1] : k \in 1..Len(crime_keywords)}
        \cup {crime_keywords[6].keywords[3], crime_indicators[1]}

\* headlines of one word, of a word after a few others, of several keywords,
\* in Latin letters, and of one letter repeated
ClassifiedHeadlines ==
    (AllKeywords \cup AllIndicators)
        \cup {Noida \o w : w \in AllKeywords \cup AllIndicators}
        \cup {UpperWords \o <<SPACE>> \o w : w \in SomeKeywords}
        \cup {Join(ws) : ws \in UNION {[1..n -> SomeKeywords] : n \in 1..MaxKeywords}}
        \cup {Rep(KA, n) : n \in 0..MaxPlainHeadline}
        \cup {Rep(LATIN_A, n) : n \in 0..MaxPlainHeadline}
        \cup {Noida \o Noida}

Candidates ==
    {Story(h, <<>>, ImageUrl, StoryUrl, type, "aajtak") :
        h \in ClassifiedHeadlines, type \in {"general", "fraud"}}

InitClassify ==
    /\ pc = "start"
    /\ candidate \in Candidates
    /\ classified = ""
    /\ valid = FALSE
    /\ extracted = None
    /\ IdleStories
    /\ IdleSummariser
    /\ IdleSimilarity
    /\ IdleWrapper
    /\ IdleRun

ClassifyCrimeType ==
    /\ pc = "start"
    /\ classified' = classify_crime_type(candidate.headline)
    /\ pc' = "classified"
    /\ UNCHANGED <<candidate, valid, extracted,
                   story_vars, summary_vars, similarity_vars, wrap_vars>>
    /\ UNCHANGED run_vars

ValidateStory ==
    /\ pc = "start"
    /\ valid' = validate_story(candidate)
    /\ pc' = "validated"
    /\ UNCHANGED <<candidate, classified, extracted,
                   story_vars, summary_vars, similarity_vars, wrap_vars>>
    /\ UNCHANGED run_vars

\* the element holds the texts and URLs of the candidate
ExtractStoryData ==
    /\ pc = "start"
    /\ \E raised \in BOOLEAN :
          extracted' = extract_story_data(candidate, candidate.source, raised)
    /\ pc' = "extracted"
    /\ UNCHANGED <<candidate, classified, valid,
                   story_vars, summary_vars, similarity_vars, wrap_vars>>
    /\ UNCHANGED run_vars

NextClassify == ClassifyCrimeType \/ ValidateStory \/ ExtractStoryData

SpecClassify == InitClassify /\ [][NextClassify]_vars

\* the categories in their declared order
DeclaredOrder ==
    <<"murder", "theft", "fraud", "assault", "rape", "kidnapping",
      "terrorism", "corruption">>

\* the positions in the declared order of the categories one of whose
\* keywords is a substring of the headline
Matching(headline) ==
    {k \in 1..Len(DeclaredOrder) :
        \E c \in 1..Len(crime_keywords) :
            /\ crime_keywords[c].type = DeclaredOrder[k]
            /\ \E i \in 1..Len(crime_keywords[c].keywords) :
                  Contains(headline, crime_keywords[c].keywords[i])}

\* C16: classify_crime_type returns the first category of the declared
\* order one of whose keywords is a substring of the headline, and general
\* when there is none; a headline with the keyword "हत्या" is murder.
C16_FirstMatch ==
    pc = "classified" =>
        LET m == Matching(candidate.headline)
        IN  /\ m = {} => classified = "general"
            /\ m # {} =>
                  classified = DeclaredOrder[CHOOSE k \in m : \A j \in m : k <= j]
            /\ Contains(candidate.headline, Hatya) => classified = "murder"

\* a headline with a keyword of theft before the keyword "हत्या"
C16_Witness ==
    /\ pc = "classified"
    /\ candidate.headline = Join(<<crime_keywords[2].keywords[1], Hatya>>)
    /\ classified = "murder"

\* the three grounds on which a story is rejected
Rejected(story) ==
    \/ Len(story.headline) < 10
    \/ \A i \in 1..Len(story.headline) : story.headline[i] \notin 2304..2431
    \/ /\ story.crime_type = "general"
       /\ \A w \in AllIndicators : ~Contains(story.headline, w)

\* C17: validate_story rejects a story exactly when its headline has fewer
\* than 10 characters, or no character in U+0900..U+097F, or its category is
\* general and the headline has no indicator word; extract_story_data
\* returns no story validate_story rejects.
C17_Rejection ==
    /\ pc = "validated" => (valid = FALSE <=> Rejected(candidate))
    /\ pc = "extracted" =>
          /\ extracted # None =>
                /\ extracted.headline = candidate.headline
                /\ ~Rejected(extracted)
          /\ Rejected([candidate EXCEPT
                          !.crime_type = classify_crime_type(candidate.headline)])
                => extracted = None

\* a Hindi headline of 10 characters and more, without keyword or indicator
\* word, is rejected as a general story and passes under another category
C17_Witness ==
    /\ pc = "validated"
    /\ candidate.headline = Noida \o Noida
    /\ candidate.crime_type = "general"
    /\ valid = FALSE

(***************************************************************************)
(* CanvaVideoCreator.wrap_text                                             *)
(***************************************************************************)
\* bbox[2] - bbox[0] of draw.textbbox((0, 0), line, font=font): the font is
\* given by the advance of a character in pixels
textbbox_width(line, a_font) == a_font * Len(line)

\* the word that fits no line is not kept
wrap_step_dropping_long_word(word, line, done, a_font, width) ==
    IF textbbox_width(Join(Append(line, word)), a_font) <= width
    THEN [current_line |-> Append(line, word), lines |-> done]
    ELSE IF line # <<>>
         THEN [current_line |-> <<word>>, lines |-> Append(done, Join(line))]
         ELSE [current_line |-> <<>>, lines |-> done]

\* the word is added whatever the width of the line
wrap_step_without_measure(word, line, done, a_font, width) ==
    [current_line |-> Append(line, word), lines |-> done]

\* the body of the loop for one word: the new current_line and lines
wrap_step(word, line, done, a_font, width) ==
    IF textbbox_width(Join(Append(line, word)), a_font) <= width
    THEN [current_line |-> Append(line, word), lines |-> done]
    ELSE IF line # <<>>
         THEN [current_line |-> <<word>>, lines |-> Append(done, Join(line))]
         ELSE [current_line |-> <<>>, lines |-> Append(done, word)]

\* the last line is appended also when it is empty
wrap_return_always_flushing(line, done) == Append(done, Join(line))

\* the statements after the loop: the value wrap_text returns
wrap_return(line, done) ==
    IF line # <<>> THEN Append(done, Join(line)) ELSE done

(***************************************************************************)
(* Wrapper: one call of wrap_text, word by word.                           *)
(***************************************************************************)
MaxWrapWords == 4
MaxWidth == 8
MaxFont == 2

\* words of 1, 3 and 6 letters
WrapWordsPool == {Rep(KA, 1), Rep(KA, 3), Rep(KA, 6)}

\* texts of words separated by one space, and texts with other whitespace
WrapTexts ==
    {Join(ws) : ws \in UNION {[1..n -> WrapWordsPool] : n \in 0..MaxWrapWords}}
        \cup {<<SPACE>>, <<TAB, KA, SPACE, SPACE, KA, KA, TAB>>}

InitWrap ==
    /\ pc = "start"
    /\ wrap_in \in [text : WrapTexts, font : 1..MaxFont, max_width : 0..MaxWidth]
    /\ remaining_words = <<>>
    /\ current_line = <<>>
    /\ lines = <<>>
    /\ IdleStories
    /\ IdleSummariser
    /\ IdleSimilarity
    /\ IdleClassifier
    /\ IdleRun

\* if not text: return []; else words = text.split()
WrapText ==
    /\ pc = "start"
    /\ IF wrap_in.text = <<>>
       THEN /\ pc' = "wrapped"
            /\ UNCHANGED remaining_words
       ELSE /\ pc' = "wrapping"
            /\ remaining_words' = Split(wrap_in.text)
    /\ UNCHANGED <<wrap_in, current_line, lines,
                   story_vars, summary_vars, similarity_vars, classifier_vars>>
    /\ UNCHANGED run_vars

\* for word in words: one pass of the loop
WrapWord ==
    /\ pc = "wrapping"
    /\ remaining_words # <<>>
    /\ LET next == wrap_step(Head(remaining_words), current_line, lines,
                             wrap_in.font, wrap_in.max_width)
       IN  /\ current_line' = next.current_line
           /\ lines' = next.lines
    /\ remaining_words' = Tail(remaining_words)
    /\ UNCHANGED <<pc, wrap_in,
                   story_vars, summary_vars, similarity_vars, classifier_vars>>
    /\ UNCHANGED run_vars

\* the loop is over: the last line is appended and lines returned
WrapReturn ==
    /\ pc = "wrapping"
    /\ remaining_words = <<>>
    /\ lines' = wrap_return(current_line, lines)
    /\ current_line' = <<>>
    /\ pc' = "wrapped"
    /\ UNCHANGED <<wrap_in, remaining_words,
                   story_vars, summary_vars, similarity_vars, classifier_vars>>
    /\ UNCHANGED run_vars

NextWrap == WrapText \/ WrapWord \/ WrapReturn

SpecWrap == InitWrap /\ [][NextWrap]_vars

\* a call that has started runs to its return statement
SpecWrapFair == SpecWrap /\ WF_vars(NextWrap)

\* the words of all lines, in order
RECURSIVE WordsOfLines(_)
WordsOfLines(ls) ==
    IF ls = <<>> THEN <<>> ELSE Split(Head(ls)) \o WordsOfLines(Tail(ls))

C19_LineWidth ==
    pc = "wrapped" =>
        \A i \in 1..Len(lines) :
            \/ wrap_in.font * Len(lines[i]) <= wrap_in.max_width
            \/ Len(Split(lines[i])) = 1

\* a line of two words that fills max_width, and a single word wider than it
C19_Witness ==
    /\ pc = "wrapped"
    /\ \E i \in 1..Len(lines) :
          /\ Len(Split(lines[i])) = 2
          /\ wrap_in.font * Len(lines[i]) = wrap_in.max_width
    /\ \E i \in 1..Len(lines) :
          /\ Len(Split(lines[i])) = 1
          /\ wrap_in.font * Len(lines[i]) > wrap_in.max_width

\* C20: wrap_text returns; what it returns is a sequence of non-empty
\* lines, at most as many as the text has words, and the empty sequence for
\* the empty text.
C20_Terminates ==
    /\ <>(pc = "wrapped")
    /\ [](pc = "wrapped" =>
             /\ \A i \in 1..Len(lines) : lines[i] # <<>>
             /\ Len(lines) <= Len(Split(wrap_in.text))
             /\ wrap_in.text = <<>> => lines = <<>>)

\* a text of four words that comes back as four lines
C20_Witness ==
    /\ pc = "wrapped"
    /\ Len(Split(wrap_in.text)) = 4
    /\ Len(lines) = 4

(***************************************************************************)
(* CanvaVideoCreator: the frame of one story                               *)
(***************************************************************************)
\* crime_story_<timestamp>_<id>.jpg in the output directory
video_file(story_id) == [id |-> story_id]

\* if story_data.get('image_path') and os.path.exists(...): try: the image
\* replaces the solid canvas; except Exception: a warning, the canvas stays
background(story_data, files) ==
    IF story_data.image_path # <<>> /\ files.image_exists
    THEN IF files.background_raises THEN "solid" ELSE "image"
    ELSE "solid"

\* try: ImageFont.truetype(...) except: ImageFont.load_default()
load_font(raises) == IF raises THEN "default" ELSE "truetype"

\* the function without its inner try blocks: what they guard reaches the
\* outer handler
create_static_video_unguarded(story_data, files) ==
    IF \/ files.render_raises
       \/ files.headline_fonts_raise
       \/ files.summary_font_raises
       \/ files.source_font_raises
       \/ (story_data.image_path # <<>> /\ files.image_exists
             /\ files.background_raises)
    THEN [video_path |-> None, frame |-> NoFrame]
    ELSE [video_path |-> video_file(story_data.id),
          frame |-> [background |-> background(story_data, files),
                     headline_font |-> "truetype",
                     summary_font |-> "truetype",
                     source_font |-> "truetype",
                     headline |-> story_data.headline,
                     summary |-> story_data.summary,
                     source |-> story_data.source]]

\* the outer try: anything raised outside the guarded blocks (drawing,
\* saving) is logged and None returned; otherwise the frame is saved and its
\* path returned
create_static_video(story_data, files) ==
    IF files.render_raises
    THEN [video_path |-> None, frame |-> NoFrame]
    ELSE [video_path |-> video_file(story_data.id),
          frame |-> [background |-> background(story_data, files),
                     headline_font |-> load_font(files.headline_fonts_raise),
                     summary_font |-> load_font(files.summary_font_raises),
                     source_font |-> load_font(files.source_font_raises),
                     headline |-> story_data.headline,
                     summary |-> story_data.summary,
                     source |-> story_data.source]]

\* create_static_video's path or None; its own handler returns None too
create_video_from_story(story_data, files) ==
    create_static_video(story_data, files).video_path

(***************************************************************************)
(* One call of create_static_video                                         *)
(***************************************************************************)
MaxRenderId == 2

\* processed stories with and without a downloaded image
RenderStories ==
    {process_single_story(
         Story(LongHeadline, LongSummary, img, <<>>, "fraud", "aajtak"),
         i, FALSE, TRUE) :
       img \in {<<>>, ImageUrl}, i \in 1..MaxRenderId}

Failures ==
    [image_exists : BOOLEAN, background_raises : BOOLEAN,
     headline_fonts_raise : BOOLEAN, summary_font_raises : BOOLEAN,
     source_font_raises : BOOLEAN, render_raises : BOOLEAN]

InitRender ==
    /\ pc = "start"
    /\ video_in \in [story_data : RenderStories, files : Failures]
    /\ video_path = None
    /\ frame = NoFrame
    /\ IdleBatch
    /\ IdleStories
    /\ IdleText
    /\ IdleScheduler
    /\ IdleCalls

CreateStaticVideo ==
    /\ pc = "start"
    /\ LET made == create_static_video(video_in.story_data, video_in.files)
       IN  /\ video_path' = made.video_path
           /\ frame' = made.frame
    /\ pc' = "rendered"
    /\ UNCHANGED <<video_in, batch_vars, scheduler_vars, call_vars,
                   story_vars, text_vars>>

NextRender == CreateStaticVideo

SpecRender == InitRender /\ [][NextRender]_vars

\* the background image is there but cannot be used
BackgroundFails ==
    /\ video_in.story_data.image_path # <<>>
    /\ video_in.files.image_exists
    /\ video_in.files.background_raises

\* C21: when the background image cannot be used or a font cannot be
\* loaded, and nothing else fails, create_static_video still saves a frame
\* and returns its path: the background is the solid canvas, the missing
\* font is the default font, and the story's texts are drawn.
C21_FallbackFrame ==
    (pc = "rendered" /\ ~video_in.files.render_raises) =>
        /\ video_path = video_file(video_in.story_data.id)
        /\ video_path # None
        /\ BackgroundFails => frame.background = "solid"
        /\ video_in.files.headline_fonts_raise => frame.headline_font = "default"
        /\ video_in.files.summary_font_raises => frame.summary_font = "default"
        /\ video_in.files.source_font_raises => frame.source_font = "default"
        /\ frame.headline = video_in.story_data.headline
        /\ frame.summary = video_in.story_data.summary

\* a frame made although the background image and every font failed
C21_Witness ==
    /\ pc = "rendered"
    /\ BackgroundFails
    /\ video_in.files.headline_fonts_raise
    /\ video_in.files.summary_font_raises
    /\ video_in.files.source_font_raises
    /\ video_path # None
    /\ frame.background = "solid"
    /\ frame.headline_font = "default"

(***************************************************************************)
(* CanvaVideoCreator: the frames of a batch                                *)
(***************************************************************************)
\* the loop that an exception leaves: the videos made before it are returned
RECURSIVE batch_loop_aborting(_, _, _, _)
batch_loop_aborting(stories_data, i, met, created) ==
    IF i > Len(stories_data) \/ met[i].raised THEN created
    ELSE LET path == create_video_from_story(stories_data[i], met[i].files)
         IN  batch_loop_aborting(stories_data, i + 1, met,
                 IF path # None
                 THEN Append(created, [story_id |-> stories_data[i].id,
                                       headline |-> stories_data[i].headline,
                                       video_path |-> path])
                 ELSE created)

\* the loop of create_videos_batch from story i on; met[i].files is what
\* create_static_video meets for story i, met[i].raised says that the pass
\* raises before it appends: except Exception: continue
RECURSIVE batch_loop(_, _, _, _)
batch_loop(stories_data, i, met, created) ==
    IF i > Len(stories_data) THEN created
    ELSE LET path == IF met[i].raised THEN None
                     ELSE create_video_from_story(stories_data[i], met[i].files)
         IN  batch_loop(stories_data, i + 1, met,
                 IF path # None
                 THEN Append(created, [story_id |-> stories_data[i].id,
                                       headline |-> stories_data[i].headline,
                                       video_path |-> path])
                 ELSE created)

create_videos_batch(stories_data, met) == batch_loop(stories_data, 1, met, <<>>)

(***************************************************************************)
(* A batch: process_stories, then create_videos_batch on its result, with  *)
(* stories whose processing or rendering fails or raises                   *)
(***************************************************************************)
MaxBatch == 4

\* story i: stories with an odd number have an image and rank first, every
\* third story has a headline without a Hindi character and fails validation
BatchStory(i) ==
    Story(IF i % 3 = 2 THEN LatinHeadline \o <<SPACE, LATIN_A + i>>
                       ELSE LongHeadline \o <<SPACE, KA + i>>,
          LongSummary,
          IF i % 2 = 1 THEN ImageUrl ELSE <<>>,
          <<>>, "fraud", "aajtak")

\* the first n stories
BatchList(n) == [i \in 1..n |-> BatchStory(i)]

\* what a story meets in create_videos_batch: a frame, no frame, an exception
Rendered == [files |-> [NoFailure EXCEPT !.image_exists = TRUE], raised |-> FALSE]
NotRendered == [files |-> [NoFailure EXCEPT !.render_raises = TRUE], raised |-> FALSE]
Raising == [files |-> NoFailure, raised |-> TRUE]
Meetings == {Rendered, NotRendered, Raising}

InitBatch ==
    /\ pc = "start"
    /\ \E n \in 0..MaxBatch : stories = BatchList(n)
    /\ max_stories \in 1..MaxBatch
    /\ \E rs \in SUBSET (1..MaxBatch) :
          process_in = [fetched |-> [i \in 1..MaxBatch |-> <<>>],
                        downloaded |-> [i \in 1..MaxBatch |-> TRUE],
                        raised |-> [i \in 1..MaxBatch |-> i \in rs]]
    /\ all_stories = <<>>
    /\ processed_stories = <<>>
    /\ batch_in = [stories_data |-> <<>>, met |-> <<>>]
    /\ created_videos = <<>>
    /\ IdleNormaliser
    /\ IdleScorer
    /\ IdleText
    /\ IdleRender
    /\ IdleScheduler
    /\ IdleCalls

ProcessBatch ==
    /\ pc = "start"
    /\ processed_stories' =
           process_stories(stories, max_stories, process_in.fetched,
                           process_in.downloaded, process_in.raised)
    /\ pc' = "processed"
    /\ UNCHANGED <<headline_in, headline_out, scored, score, all_stories,
                   stories, max_stories>>
    /\ UNCHANGED <<process_in, batch_in, created_videos, render_vars,
                   scheduler_vars, call_vars, text_vars>>

CreateVideosBatch ==
    /\ pc = "processed"
    /\ \E met \in [1..Len(processed_stories) -> Meetings] :
          /\ batch_in' = [stories_data |-> processed_stories, met |-> met]
          /\ created_videos' = create_videos_batch(processed_stories, met)
    /\ pc' = "created"
    /\ UNCHANGED <<process_in, story_vars, render_vars, scheduler_vars,
                   call_vars, text_vars>>

NextBatch == ProcessBatch \/ CreateVideosBatch

SpecBatch == InitBatch /\ [][NextBatch]_vars

\* the ranked candidates of the batch and the positions of those that are
\* processed without an exception and pass validation
BatchCandidates == candidates(stories, max_stories)
ProcessedAt(i) ==
    process_single_story(BatchCandidates[i], i, process_in.fetched[i],
                         process_in.downloaded[i])
Succeeding ==
    SelectSeq(Positions(BatchCandidates),
              LAMBDA i : ~process_in.raised[i] /\ ProcessedAt(i) # None)

\* the positions of the stories that are rendered without an exception
Rendering ==
    SelectSeq(Positions(batch_in.stories_data),
              LAMBDA i : /\ ~batch_in.met[i].raised
                         /\ ~batch_in.met[i].files.render_raises)

MaxRuns == 30

\* self.stats['runs'][-30:]
LastRuns(runs) ==
    IF Len(runs) > MaxRuns THEN SubSeq(runs, Len(runs) - MaxRuns + 1, Len(runs))
    ELSE runs

\* the rate videos_created / stories_processed * 100 is kept as a fraction
update_statistics(st, run_stats, now) ==
    [last_run |-> now,
     total_stories_scraped |-> st.total_stories_scraped + run_stats.stories_scraped,
     total_videos_created |-> st.total_videos_created + run_stats.videos_created,
     last_success_rate |->
         IF run_stats.stories_processed > 0
         THEN [num |-> run_stats.videos_created * 100,
               den |-> run_stats.stories_processed]
         ELSE st.last_success_rate,
     runs |-> LastRuns(Append(st.runs, run_stats))]

\* run_stats['status'] = 'completed': the record is the one just appended
mark_completed(st) ==
    [st EXCEPT !.runs = [st.runs EXCEPT ![Len(st.runs)].status = "completed"]]

\* the except branch updating the totals as a completed run does
failed_run_counted(st, run_stats, message) ==
    [stats |-> update_statistics(st, [run_stats EXCEPT !.status = "failed",
                                                       !.errors = <<message>>],
                                 run_stats.run_id),
     returned |-> FALSE]

\* the except branch: the run record is marked and appended
failed_run(st, run_stats, message) ==
    [stats |-> [st EXCEPT !.runs =
                   Append(st.runs, [run_stats EXCEPT !.status = "failed",
                                                     !.errors = <<message>>])],
     returned |-> FALSE]

\* run_automation given the lengths of what scrape_all_sources,
\* process_stories and create_videos_batch return; the record appended by
\* update_statistics is the dict whose status is set afterwards
run_automation(st, now, scraped, processed, created) ==
    LET run_stats == [run_id |-> now, stories_scraped |-> 0,
                      stories_processed |-> 0, videos_created |-> 0,
                      errors |-> <<>>, status |-> "started"]
    IN  IF scraped = 0
        THEN failed_run(st, run_stats,
                 "Automation failed: No stories scraped from any source")
        ELSE IF processed = 0
        THEN failed_run(st, [run_stats EXCEPT !.stories_scraped = scraped],
                 "Automation failed: No stories could be processed")
        ELSE [stats |-> mark_completed(update_statistics(st,
                             [run_stats EXCEPT !.stories_scraped = scraped,
                                               !.stories_processed = processed,
                                               !.videos_created = created],
                             now)),
              returned |-> TRUE]

\* one call of run_automation: the finally clause calls save_statistics,
\* which writes the file unless the write fails
RunAutomation(scraped, processed, created, written) ==
    /\ clock' = clock + 1
    /\ LET run == run_automation(stats, clock + 1, scraped, processed, created)
       IN  /\ stats' = run.stats
           /\ returned' = run.returned
           /\ saved_stats' = IF written THEN run.stats ELSE saved_stats
    /\ saves' = saves + 1
    /\ pc' = "ran"
    /\ UNCHANGED <<story_vars, text_vars, render_vars, batch_vars, call_vars>>

(***************************************************************************)
(* A few runs of the scheduler, with every outcome of the three stages     *)
(***************************************************************************)
MaxCalls == 2
MaxScraped == 2

InitAutomation ==
    /\ pc = "start"
    /\ IdleStories
    /\ IdleText
    /\ IdleRun

\* process_stories returns at most max_stories=4 of the scraped stories,
\* create_videos_batch at most one video for each of them
NextAutomation ==
    \E scraped \in 0..MaxScraped :
       \E processed \in 0..(IF scraped < WorkflowLimit THEN scraped ELSE WorkflowLimit) :
          \E created \in 0..processed, written \in BOOLEAN :
             /\ clock < MaxCalls
             /\ RunAutomation(scraped, processed, created, written)

SpecAutomation == InitAutomation /\ [][NextAutomation]_vars

\* the record of the run that ended last
LastRun == stats.runs[Len(stats.runs)]

\* C24 as claimed, for rendering: a run in which create_videos_batch made no
\* video out of the processed stories is reported as having no viable items,
\* so it does not return True with a record marked completed.
C24_NoVideosSurfaced ==
    (pc = "ran" /\ LastRun.stories_processed > 0 /\ LastRun.videos_created = 0) =>
        /\ returned = FALSE
        /\ LastRun.status # "completed"

\* C29: every call of run_automation adds exactly one record at the end of
\* stats['runs'], in front of it earlier records only and in their order
\* (the oldest are gone when the history is cut), and then calls
\* save_statistics once; the record is marked completed exactly when the call returns True
\* and failed exactly when it returns False; a call that returns False leaves
\* total_stories_scraped, total_videos_created and last_run as they were.
C29_OneRecordPerRun ==
    [][clock' # clock =>
         LET old == stats.runs
             new == stats'.runs
             record == new[Len(new)]
             grown == Append(old, record)
         IN  /\ new # <<>>
             /\ \E cut \in 0..Len(old) :
                   /\ new = SubSeq(grown, 1 + cut, Len(grown))
                   /\ cut > 0 => Len(grown) > MaxRuns
             /\ record.run_id = clock'
             /\ saves' = saves + 1
             /\ saved_stats' \in {stats', saved_stats}
             /\ (record.status = "completed") <=> (returned' = TRUE)
             /\ (record.status = "failed") <=> (returned' = FALSE)
             /\ returned' = FALSE =>
                   /\ stats'.total_stories_scraped = stats.total_stories_scraped
                   /\ stats'.total_videos_created = stats.total_videos_created
                   /\ stats'.last_run = stats.last_run]_vars

\* a completed run followed by a run that failed after scraping two stories
C29_Witness ==
    /\ pc = "ran"
    /\ clock = 2
    /\ saves = 2
    /\ returned = FALSE
    /\ Len(stats.runs) = 2
    /\ stats.runs[1].status = "completed"
    /\ stats.runs[2].status = "failed"
    /\ stats.runs[2].stories_scraped = 2
    /\ stats.total_stories_scraped = stats.runs[1].stories_scraped
    /\ stats.total_stories_scraped > 0
    /\ stats.last_run = 1
    /\ saved_stats = stats

(***************************************************************************)
(* Many runs of the scheduler: runs without stories, and a few runs that   *)
(* make a video                                                            *)
(***************************************************************************)
MaxHistory == 32
MaxVideos == 2

NextHistory ==
    /\ clock < MaxHistory
    /\ \/ RunAutomation(0, 0, 0, TRUE)
       \/ /\ stats.total_videos_created < MaxVideos
          /\ RunAutomation(1, 1, 1, TRUE)

SpecHistory == InitAutomation /\ [][NextHistory]_vars

\* C27 as claimed: after any sequence of runs stats['runs'] holds at most 30
\* records, and they are the records of the most recent runs.
C27_HistoryBounded ==
    /\ Len(stats.runs) <= MaxRuns
    /\ \A k \in 1..Len(stats.runs) :
          stats.runs[k].run_id = clock - Len(stats.runs) + k

(***************************************************************************)
(* Repeated calls on one CrimeNewsScraper and one ContentProcessor         *)
(***************************************************************************)
\* a list that an earlier call's seen_headlines would go on from
carried_seen_headlines(left) == left

\* seen_headlines = []: a local of the call, empty at its start whatever the
\* call before left in its own
fresh_seen_headlines(left) == <<>>

\* remove_duplicates as a call on the object: the stories returned and the
\* local list at the end
remove_duplicates_call(list, left) ==
    LET kept == dedup_loop(list, <<>>, fresh_seen_headlines(left))
    IN  [unique_stories |-> kept,
         seen_headlines |-> fresh_seen_headlines(left)
                                \o [i \in 1..Len(kept) |-> kept[i].headline]]

MaxRepeat == 3

\* stories 1, 2, 4, ... are near-duplicates of each other, every third
\* story is none of any of them
RepeatStory(i) ==
    Scraped(IF i % 3 = 0 THEN Hatya \o <<SPACE>> \o Words(31, 36)
                         ELSE Words(1, 7 + i))

\* the stories numbered in chosen, in the order of their numbers
RepeatList(chosen) ==
    SelectSeq([i \in 1..MaxRepeat |-> RepeatStory(i)],
              LAMBDA x : \E i \in chosen : x = RepeatStory(i))
RepeatLists == {RepeatList(chosen) : chosen \in SUBSET (1..MaxRepeat)}

InitRepeat ==
    /\ pc = "start"
    /\ IdleStories
    /\ IdleText
    /\ IdleRun

RemoveDuplicatesCall(list) ==
    /\ LET call == remove_duplicates_call(list, last_seen)
       IN  /\ last_unique' = call.unique_stories
           /\ last_seen' = call.seen_headlines
    /\ earlier_seen' = last_seen
    /\ all_stories' = list
    /\ pc' = "deduplicated"
    /\ UNCHANGED <<headline_in, headline_out, scored, score, stories,
                   max_stories, processed_stories>>
    /\ UNCHANGED <<text_vars, render_vars, batch_vars, scheduler_vars,
                   workflow_vars, scrape_vars>>

\* the stories have neither image nor URL: nothing is fetched or downloaded
NothingMet(list) ==
    [fetched |-> [i \in 1..Len(list) |-> <<>>],
     downloaded |-> [i \in 1..Len(list) |-> FALSE],
     raised |-> [i \in 1..Len(list) |-> FALSE]]

\* process_stories on what remove_duplicates returned last:
\* self.processed_stories = processed_stories
ProcessStoriesCall(limit) ==
    /\ stories' = last_unique
    /\ max_stories' = limit
    /\ processed_stories' =
           process_stories(last_unique, limit, NothingMet(last_unique).fetched,
                           NothingMet(last_unique).downloaded,
                           NothingMet(last_unique).raised)
    /\ pc' = "processed"
    /\ UNCHANGED <<headline_in, headline_out, scored, score, all_stories>>
    /\ UNCHANGED <<last_unique, last_seen, earlier_seen>>
    /\ UNCHANGED <<text_vars, render_vars, batch_vars, scheduler_vars,
                   workflow_vars, scrape_vars>>

NextRepeat ==
    \/ \E list \in RepeatLists : RemoveDuplicatesCall(list)
    \/ \E limit \in 1..MaxRepeat : ProcessStoriesCall(limit)

SpecRepeat == InitRepeat /\ [][NextRepeat]_vars

\* C25: after any sequence of calls on the same objects, the list the last
\* remove_duplicates call returned is what a fresh instance returns for its
\* argument, and processed_stories holds the stories of the last
\* process_stories call and no others: each is made from a story of that
\* call's list, and the list is what the call on a fresh processor returns.
C25_NoCarryOver ==
    /\ last_unique = remove_duplicates(all_stories)
    /\ Len(processed_stories) <= Len(stories)
    /\ \A i \in 1..Len(processed_stories) :
          \E k \in 1..Len(stories) : processed_stories[i].original_data = stories[k]
    /\ processed_stories =
           process_loop(candidates(stories, max_stories), 1,
                        NothingMet(stories).fetched, NothingMet(stories).downloaded,
                        NothingMet(stories).raised, <<>>)

\* a call keeps a story that is a near-duplicate of a headline the call
\* before had seen, while processed_stories holds one story of the two that
\* an earlier process_stories call was given
C25_Witness ==
    /\ pc = "deduplicated"
    /\ earlier_seen # <<>>
    /\ \E k \in 1..Len(last_unique) :
          /\ is_duplicate(last_unique[k].headline, earlier_seen)
          /\ last_unique[k].headline \notin {earlier_seen[j] : j \in 1..Len(earlier_seen)}
    /\ Len(stories) = 2
    /\ Len(processed_stories) = 1

(***************************************************************************)
(* run_full_workflow, stage by stage                                       *)
(***************************************************************************)
\* a stage that is taken to have found something whatever it returned
stage_never_empty(found) == FALSE

\* if len(...) == 0: raise Exception(...)
stage_is_empty(found) == found = 0

\* results['steps'][name] = {..., count}
record_step(res, name, found) ==
    [res EXCEPT !.steps = Append(@, [name |-> name, found |-> found])]

\* a stage of the try block: it raises, or its step is recorded and the
\* function goes on unless the stage found nothing
workflow_stage(res, name, found, raises, message) ==
    IF raises THEN [results |-> [res EXCEPT !.error = "raised"], failed |-> TRUE]
    ELSE IF stage_is_empty(found)
    THEN [results |-> [record_step(res, name, found) EXCEPT !.error = message],
          failed |-> TRUE]
    ELSE [results |-> record_step(res, name, found), failed |-> FALSE]

\* what the last recorded stage found
Found == results.steps[Len(results.steps)].found

MaxFound == 5

\* a stage ran: on failure the except branch saves the results once and
\* returns False
RunStage(from, to, name, found, raises, message) ==
    /\ pc = from
    /\ LET stage == workflow_stage(results, name, found, raises, message)
       IN  /\ results' = stage.results
           /\ IF stage.failed
              THEN /\ workflow_saves' = workflow_saves + 1
                   /\ workflow_returned' = FALSE
                   /\ pc' = "returned"
              ELSE /\ pc' = to
                   /\ UNCHANGED <<workflow_saves, workflow_returned>>
    /\ UNCHANGED <<story_vars, text_vars, render_vars, batch_vars,
                   scheduler_vars, repeat_vars, scrape_vars>>

\* Step 1: the constructors; the step holds no count
InitializeComponents ==
    \E raises \in BOOLEAN :
       RunStage("start", "initialized", "initialization", 1, raises, "")

\* Step 2: scrape_all_sources
ScrapeStories ==
    \E found \in 0..MaxFound, raises \in BOOLEAN :
       RunStage("initialized", "scraped", "scraping", found, raises,
                "No crime stories found from any source")

\* Step 3: process_stories(stories, max_stories=4)
ProcessScraped ==
    /\ pc = "scraped"
    /\ \E found \in 0..(IF Found < WorkflowLimit THEN Found ELSE WorkflowLimit),
          raises \in BOOLEAN :
          RunStage("scraped", "processed", "processing", found, raises,
                   "No stories could be processed successfully")

\* Step 4: create_videos_batch
CreateVideos ==
    /\ pc = "processed"
    /\ \E found \in 0..Found, raises \in BOOLEAN :
          RunStage("processed", "created", "video_creation", found, raises,
                   "No videos could be created")

\* Step 5: the report, save_workflow_results, return True
GenerateReport ==
    /\ pc = "created"
    /\ results' = [results EXCEPT !.success = TRUE]
    /\ workflow_saves' = workflow_saves + 1
    /\ workflow_returned' = TRUE
    /\ pc' = "returned"
    /\ UNCHANGED <<story_vars, text_vars, render_vars, batch_vars,
                   scheduler_vars, repeat_vars, scrape_vars>>

InitWorkflow ==
    /\ pc = "start"
    /\ IdleStories
    /\ IdleText
    /\ IdleRun

NextWorkflow ==
    \/ InitializeComponents
    \/ ScrapeStories
    \/ ProcessScraped
    \/ CreateVideos
    \/ GenerateReport

SpecWorkflow == InitWorkflow /\ [][NextWorkflow]_vars

StageOrder == <<"initialization", "scraping", "processing", "video_creation">>

\* C28: the stages are recorded in the order scrape, process, create videos;
\* a stage is recorded only when every stage before it found something; the
\* function returns True only with a story scraped, a story processed and a
\* video created; and save_workflow_results has been called exactly once
\* when the function has returned, and not before.
C28_StagesInOrder ==
    /\ Len(results.steps) <= Len(StageOrder)
    /\ \A k \in 1..Len(results.steps) :
          /\ results.steps[k].name = StageOrder[k]
          /\ k < Len(results.steps) => results.steps[k].found > 0
    /\ results.success =>
          /\ Len(results.steps) = Len(StageOrder)
          /\ \A k \in 2..Len(StageOrder) : results.steps[k].found > 0
    /\ workflow_returned = TRUE => results.success
    /\ pc = "returned" =>
          /\ workflow_saves = 1
          /\ workflow_returned = results.success
    /\ pc # "returned" => workflow_saves = 0 /\ ~results.success

\* the run stopped after a processing stage that returned nothing for two
\* scraped stories
C28_Witness ==
    /\ pc = "returned"
    /\ workflow_returned = FALSE
    /\ workflow_saves = 1
    /\ Len(results.steps) = 3
    /\ results.steps[2].found = 2
    /\ results.steps[3].found = 0
    /\ results.error = "No stories could be processed successfully"

(***************************************************************************)
(* scrape_all_sources, source by source                                    *)
(***************************************************************************)
\* setup_selenium: self.driver is set when webdriver.Chrome starts, and stays
\* None when it raises
setup_selenium(started) == IF started THEN "open" ELSE "none"

\* a close_driver that leaves the driver as it is
close_driver_keeping(a_driver) == a_driver

\* if self.driver: self.driver.quit(); self.driver = None
close_driver(a_driver) == "none"

\* one of scrape_aajtak, scrape_amarujala, scrape_indiatoday: the driver is
\* set up if there is none; without a driver self.driver.get raises, and so
\* may the page; every exception is caught and [] returned
scrape_source(a_driver, started, loaded, found) ==
    LET ready == IF a_driver = "none" THEN setup_selenium(started) ELSE a_driver
    IN  IF ready = "none" \/ ~loaded
        THEN [driver |-> ready, stories |-> <<>>, failed |-> TRUE]
        ELSE [driver |-> ready, stories |-> found, failed |-> FALSE]

MaxSourceStories == 1

SourceOrder == <<"aajtak", "amarujala", "indiatoday">>

\* what a page of a source holds: near-duplicates across the sources
SourceStories(source) ==
    {Story(h, <<>>, <<>>, <<>>, "murder", source) : h \in {Words(1, 8), Words(1, 9)}}
SourceLists(source) ==
    UNION {[1..n -> SourceStories(source)] : n \in 0..MaxSourceStories}

InitScrape ==
    /\ pc = "start"
    /\ IdleStories
    /\ IdleText
    /\ IdleRun

\* all_stories.extend(self.scrape_<source>())
ScrapeSource(from, source) ==
    /\ pc = from
    /\ \E started \in BOOLEAN, loaded \in BOOLEAN, found \in SourceLists(source) :
          LET call == scrape_source(driver, started, loaded, found)
          IN  /\ driver' = call.driver
              /\ all_stories' = all_stories \o call.stories
              /\ visited' = Append(visited, [source |-> source,
                                             driver |-> call.driver,
                                             failed |-> call.failed,
                                             stories |-> call.stories])
    /\ pc' = source
    /\ UNCHANGED <<headline_in, headline_out, scored, score, stories,
                   max_stories, processed_stories>>
    /\ UNCHANGED <<text_vars, render_vars, batch_vars, scheduler_vars,
                   repeat_vars, workflow_vars>>

ScrapeAajtak == ScrapeSource("start", "aajtak")
ScrapeAmarujala == ScrapeSource("aajtak", "amarujala")
ScrapeIndiatoday == ScrapeSource("amarujala", "indiatoday")

\* return remove_duplicates(all_stories), or [] from the except branch;
\* finally: close_driver()
ReturnStories ==
    /\ pc = "indiatoday"
    /\ \E raises \in BOOLEAN :
          stories' = IF raises THEN <<>> ELSE remove_duplicates(all_stories)
    /\ driver' = close_driver(driver)
    /\ pc' = "returned"
    /\ UNCHANGED <<headline_in, headline_out, scored, score, all_stories,
                   max_stories, processed_stories, visited>>
    /\ UNCHANGED <<text_vars, render_vars, batch_vars, scheduler_vars,
                   repeat_vars, workflow_vars>>

NextScrape ==
    \/ ScrapeAajtak
    \/ ScrapeAmarujala
    \/ ScrapeIndiatoday
    \/ ReturnStories

SpecScrape == InitScrape /\ [][NextScrape]_vars

RECURSIVE Gathered(_)
Gathered(calls) ==
    IF calls = <<>> THEN <<>>
    ELSE Gathered(SubSeq(calls, 1, Len(calls) - 1)) \o calls[Len(calls)].stories

\* C30: the sources are scraped in their order whatever happened to the
\* sources before; a source that fails, also by a driver that does not start,
\* adds nothing to all_stories and the others add what they found; when
\* scrape_all_sources has returned, all three sources have been scraped and
\* self.driver is None.
C30_SourcesIndependent ==
    /\ Len(visited) <= Len(SourceOrder)
    /\ \A k \in 1..Len(visited) :
          /\ visited[k].source = SourceOrder[k]
          /\ visited[k].failed => visited[k].stories = <<>>
          /\ visited[k].driver = "none" => visited[k].failed
    /\ all_stories = Gathered(visited)
    /\ pc = "returned" =>
          /\ Len(visited) = Len(SourceOrder)
          /\ driver = "none"
          /\ stories \in {<<>>, remove_duplicates(all_stories)}

\* the driver did not start for the first source, the second source
\* delivered a story, the page of the third raised with the driver open
C30_Witness ==
    /\ pc = "returned"
    /\ driver = "none"
    /\ visited[1].failed /\ visited[1].driver = "none"
    /\ ~visited[2].failed /\ visited[2].stories # <<>>
    /\ visited[3].failed /\ visited[3].driver = "open"
    /\ stories = visited[2].stories
====
